---- MODULE Spec2Model ----
(***************************************************************************)
(* A model of the ChessLens analysis pipeline (server/src/chesslens).      *)
(*                                                                         *)
(*   Spec           AnalysisEngine.analyze_game driving                    *)
(*                  StockfishAnalyzer.analyze_game over one parsed game    *)
(*   SpecCpLoss     the centipawn-loss arithmetic of analyze_game          *)
(*   SpecClassify   MoveClassifier.classify and PhaseClassifier.classify   *)
(*   SpecBook       OpeningAnalyzer.find_book_deviation                    *)
(*   SpecWeakness   WeaknessDetector.analyze                               *)
(*                                                                         *)
(* Python floats that are quotients of integers are kept as exact          *)
(* fractions [num, den] with den > 0; an Optional value is a sequence of   *)
(* length 0 (None) or 1.                                                   *)
(***************************************************************************)
EXTENDS Integers, Sequences, FiniteSets, TLC

VARIABLES
    \* ---- AnalysisEngine.analyze_game / StockfishAnalyzer.analyze_game
    parsed,           \* Optional ParsedGame.moves returned by PgnParser.parse
    player_color,     \* game.player_color
    pc,               \* position in the coroutine
    i,                \* 1-based index of the move the loop is at
    eval_before,      \* Optional EngineEval of move.fen_before
    eval_after,       \* Optional EngineEval of move.fen_after
    move_analyses,    \* list[MoveAnalysis]
    player_losses,    \* list[int]
    opponent_losses,  \* list[int]
    phase_losses,     \* dict[GamePhase, list[int]]
    blunders,
    mistakes,
    inaccuracies,
    result,           \* Optional GameAnalysisResult
    session,          \* records added to the database session, in order
    is_analyzed,      \* game.is_analyzed
    analyzed_at,      \* game.analyzed_at (Optional)
    outstanding,      \* oracle calls issued and not yet completed
    oracle_log,       \* history: the oracle calls issued and the delays slept
    \* ---- OpeningAnalyzer.find_book_deviation
    bk_game,          \* Optional mainline (the moves' UCI) read from the PGN
    bk_color,         \* player_color
    bk_pc,            \* position in the coroutine
    bk_ply,           \* ply of the node the loop is at (0-based)
    bk_board,         \* the moves pushed on the board so far
    bk_result,        \* Optional BookDeviation returned
    bk_failures,      \* explorer queries that failed so far
    bk_book_data,     \* Optional book_moves_data of the latest explorer answer
    \* ---- WeaknessDetector.analyze
    wd_evs,           \* move_evaluations
    wd_colors,        \* player_color_per_game
    wd_report,        \* Optional WeaknessReport
    \* ---- api/player.py sync_games
    sy_pc,            \* position in the request
    sy_db,            \* the committed rows of the games table, in order
    sy_raw,           \* Optional raw_games returned by fetch_all_games
    sy_games,         \* Optional list of (raw_game, parsed_game) pairs
    sy_session,       \* Game objects added to the session, not yet committed
    sy_runs,          \* requests finished so far
    \* ---- pure functions applied to drawn inputs
    fn_in,            \* the drawn input
    fn_out            \* Optional output

pvars == <<parsed, player_color, pc, i, eval_before, eval_after, move_analyses,
           player_losses, opponent_losses, phase_losses, blunders, mistakes,
           inaccuracies, result, session, is_analyzed, analyzed_at>>

ovars == <<outstanding, oracle_log>>

bvars == <<bk_game, bk_color, bk_pc, bk_ply, bk_board, bk_result, bk_failures,
           bk_book_data>>

wvars == <<wd_evs, wd_colors, wd_report>>

fvars == <<fn_in, fn_out>>

svars == <<sy_pc, sy_db, sy_raw, sy_games, sy_session, sy_runs>>

vars == <<pvars, ovars, bvars, wvars, fvars, svars>>

\* the variables StockfishAnalyzer and AnalysisEngine never touch
rest_p == <<bvars, wvars, fvars, svars>>

----------------------------------------------------------------------------
(* Helpers *)

None == <<>>

Some(x) == <<x>>

Min(a, b) == IF a <= b THEN a ELSE b

Max(a, b) == IF a >= b THEN a ELSE b

RECURSIVE Sum(_)
Sum(s) == IF s = <<>> THEN 0 ELSE Head(s) + Sum(Tail(s))

\* s[:n]
Take(s, n) == SubSeq(s, 1, Min(n, Len(s)))

\* a/b = c/d for fractions with positive denominators
FracEq(a, b) == a.num * b.den = b.num * a.den

FracLe(a, b) == a.num * b.den <= b.num * a.den

FracLt(a, b) == a.num * b.den < b.num * a.den

Frac(n, d) == [num |-> n, den |-> d]

----------------------------------------------------------------------------
(* models/enums.py *)

GamePhase == {"opening", "middlegame", "endgame"}

MoveClassification == {"brilliant", "good", "book", "inaccuracy", "mistake", "blunder"}

----------------------------------------------------------------------------
(* analysis/move_classifier.py *)

ClassifyStrict(centipawn_loss) ==
    IF centipawn_loss < 0 THEN "good"
    ELSE IF centipawn_loss < 10 THEN "good"
    ELSE IF centipawn_loss < 50 THEN "inaccuracy"
    ELSE IF centipawn_loss < 100 THEN "mistake"
    ELSE "blunder"

Classify(centipawn_loss) ==
    IF centipawn_loss <= 0 THEN "good"
    ELSE IF centipawn_loss <= 10 THEN "good"
    ELSE IF centipawn_loss <= 50 THEN "inaccuracy"
    ELSE IF centipawn_loss <= 100 THEN "mistake"
    ELSE "blunder"

----------------------------------------------------------------------------
(* analysis/phase_classifier.py.  A board is the number of pieces of each  *)
(* type and colour on it, which is all that classify reads.                *)

PieceTypes == {"pawn", "knight", "bishop", "rook", "queen", "king"}

Colors == {"white", "black"}

PIECE_VALUES ==
    [t \in {"pawn", "knight", "bishop", "rook", "queen"} |->
        CASE t = "pawn" -> 1
          [] t = "knight" -> 3
          [] t = "bishop" -> 3
          [] t = "rook" -> 5
          [] t = "queen" -> 9]

RECURSIVE MaterialOver(_, _)
MaterialOver(board, types) ==
    IF types = {} THEN 0
    ELSE LET t == CHOOSE x \in types : TRUE
         IN  board["white"][t] * PIECE_VALUES[t]
             + board["black"][t] * PIECE_VALUES[t]
             + MaterialOver(board, types \ {t})

TotalMaterial(board) == MaterialOver(board, DOMAIN PIECE_VALUES)

PhaseClassifyStrict(board, move_number) ==
    LET material == TotalMaterial(board)
    IN  IF move_number < 12 /\ material > 60 THEN "opening"
        ELSE IF material < 26 THEN "endgame"
        ELSE "middlegame"

PhaseClassify(board, move_number) ==
    LET material == TotalMaterial(board)
    IN  IF move_number <= 12 /\ material >= 60 THEN "opening"
        ELSE IF material <= 26 THEN "endgame"
        ELSE "middlegame"

----------------------------------------------------------------------------
(* Inputs of the pipeline: parsed games and evaluator responses *)

MaxMoves == 3

PieceCount(p, n, b, r, q) ==
    [pawn |-> p, knight |-> n, bishop |-> b, rook |-> r, queen |-> q, king |-> 1]

\* The boards of the positions used: material 78, 27 and 26.
FenBoard(fen) ==
    CASE fen = "fen78" -> [white |-> PieceCount(8, 2, 2, 2, 1), black |-> PieceCount(8, 2, 2, 2, 1)]
      [] fen = "fen27" -> [white |-> PieceCount(6, 0, 1, 1, 0), black |-> PieceCount(5, 1, 0, 1, 0)]
      [] fen = "fen26" -> [white |-> PieceCount(5, 1, 0, 1, 0), black |-> PieceCount(5, 1, 0, 1, 0)]

\* What the PGN holds for one half-move: notation, positions, clock comment.
MoveKinds ==
    { [san |-> "e4", uci |-> "e2e4", fen_before |-> "fen78", fen_after |-> "fen78",
       clock_seconds |-> None],
      [san |-> "Rxd5+", uci |-> "d1d5", fen_before |-> "fen27", fen_after |-> "fen26",
       clock_seconds |-> Some(45)],
      [san |-> "Kg2", uci |-> "g1g2", fen_before |-> "fen26", fen_after |-> "fen26",
       clock_seconds |-> Some(90)] }

\* PgnParser.parse: the ParsedMove of the node at 0-based index ply
ParsedMove(ply, k) ==
    [move_number |-> (ply \div 2) + 1,
     ply |-> ply,
     is_white |-> (ply % 2 = 0),
     san |-> k.san,
     uci |-> k.uci,
     fen_before |-> k.fen_before,
     fen_after |-> k.fen_after,
     clock_seconds |-> k.clock_seconds]

\* the mainlines drawn start from the initial position and material never
\* grows along them (no promotions)
MaterialOrdered(ks) ==
    /\ ks # <<>> => ks[1].fen_before = "fen78"
    /\ \A j \in DOMAIN ks : \A l \in DOMAIN ks :
          j < l => TotalMaterial(FenBoard(ks[j].fen_before)) >= TotalMaterial(FenBoard(ks[l].fen_before))

\* the move lists PgnParser.parse returns for mainlines of at most MaxMoves plies
ParsedGames ==
    UNION { { [j \in 1..n |-> ParsedMove(j - 1, ks[j])] :
                ks \in {f \in [1..n -> MoveKinds] : MaterialOrdered(f)} }
            : n \in 0..MaxMoves }

\* PositionEvaluator.evaluate: the EngineEval built from a successful response
EngineEvals ==
    { [score_cp |-> 20, best_move_uci |-> "e2e4", best_move_san |-> "e4",
       mate_in |-> None, principal_variation |-> <<>>, depth |-> 16],
      [score_cp |-> -20, best_move_uci |-> "g1f3", best_move_san |-> "Nf3",
       mate_in |-> None,
       principal_variation |-> <<"g1f3", "d7d5", "d2d4", "g8f6", "c2c4", "e7e6">>,
       depth |-> 16],
      [score_cp |-> -120, best_move_uci |-> "d1d5", best_move_san |-> "Rxd5+",
       mate_in |-> None, principal_variation |-> <<"d1d5", "g8h8">>, depth |-> 18] }

----------------------------------------------------------------------------
(* services/stockfish_analyzer.py: StockfishAnalyzer.analyze_game *)

CpLossUncapped(is_white, score_before, score_after) ==
    IF is_white
    THEN Max(0, score_before - score_after)
    ELSE Max(0, (-score_before) - (-score_after))

\* lines 109-116
CpLoss(is_white, score_before, score_after) ==
    LET cp_loss ==
            IF is_white
            THEN Max(0, score_before - score_after)
            ELSE Max(0, (-score_before) - (-score_after))
    IN  Min(cp_loss, 1000)

IsPlayerMoveAlways(move_is_white, color) == TRUE

\* lines 87, 122
IsPlayerMove(move_is_white, color) == move_is_white = (color = "white")

AvgSum(lst) == Frac(Sum(lst), 1)

\* _avg, lines 158-159
Avg(lst) == IF lst # <<>> THEN Frac(Sum(lst), Len(lst)) ELSE Frac(0, 1)

PhaseAcplZero(losses) == Some(Avg(losses))

\* lines 167-175: a phase's ACPL, None for a phase without player moves
PhaseAcpl(losses) == IF losses # <<>> THEN Some(Avg(losses)) ELSE None

MoveAnalysisNoClock(move, ev_before, ev_after, cp_loss, classification, phase) ==
    [ply |-> move.ply,
     is_white |-> move.is_white,
     san |-> move.san,
     uci |-> move.uci,
     fen_before |-> move.fen_before,
     fen_after |-> move.fen_after,
     best_move_uci |-> ev_before.best_move_uci,
     best_move_san |-> ev_before.best_move_san,
     score_before_cp |-> ev_before.score_cp,
     score_after_cp |-> ev_after.score_cp,
     centipawn_loss |-> cp_loss,
     classification |-> classification,
     game_phase |-> phase,
     clock_seconds |-> None,
     engine_line |-> Take(ev_before.principal_variation, 5)]

\* lines 136-152
MoveAnalysis(move, ev_before, ev_after, cp_loss, classification, phase) ==
    [ply |-> move.ply,
     is_white |-> move.is_white,
     san |-> move.san,
     uci |-> move.uci,
     fen_before |-> move.fen_before,
     fen_after |-> move.fen_after,
     best_move_uci |-> ev_before.best_move_uci,
     best_move_san |-> ev_before.best_move_san,
     score_before_cp |-> ev_before.score_cp,
     score_after_cp |-> ev_after.score_cp,
     centipawn_loss |-> cp_loss,
     classification |-> classification,
     game_phase |-> phase,
     clock_seconds |-> move.clock_seconds,
     engine_line |-> Take(ev_before.principal_variation, 5)]

\* lines 161-177
GameAnalysisResult ==
    [player_acpl |-> Avg(player_losses),
     opponent_acpl |-> Avg(opponent_losses),
     blunder_count |-> blunders,
     mistake_count |-> mistakes,
     inaccuracy_count |-> inaccuracies,
     opening_acpl |-> PhaseAcpl(phase_losses["opening"]),
     middlegame_acpl |-> PhaseAcpl(phase_losses["middlegame"]),
     endgame_acpl |-> PhaseAcpl(phase_losses["endgame"]),
     moves |-> move_analyses]

moves == parsed[1]

move == moves[i]

OracleCall(kind) == [ev |-> "call", oracle |-> "evaluate", kind |-> kind, ply |-> move.ply]

Delay == [ev |-> "delay"]

----------------------------------------------------------------------------
(* The coroutine: analysis/engine.py AnalysisEngine.analyze_game awaiting  *)
(* StockfishAnalyzer.analyze_game.  Each action is the code between two    *)
(* suspension points (an issued call, its completion, an elapsed sleep).   *)

OracleIdle == outstanding = 0 /\ oracle_log = <<>>

BookIdle ==
    /\ bk_game = None
    /\ bk_color = "white"
    /\ bk_pc = "idle"
    /\ bk_ply = 0
    /\ bk_board = <<>>
    /\ bk_result = None
    /\ bk_failures = 0
    /\ bk_book_data = None

WeaknessIdle == wd_evs = <<>> /\ wd_colors = <<>> /\ wd_report = None

FnIdle == fn_in = None /\ fn_out = None

SyncIdle ==
    /\ sy_pc = "idle"
    /\ sy_db = <<>>
    /\ sy_raw = None
    /\ sy_games = None
    /\ sy_session = <<>>
    /\ sy_runs = 0

PipelineIdle ==
    /\ parsed = None
    /\ player_color = "white"
    /\ pc = "idle"
    /\ i = 1
    /\ eval_before = None
    /\ eval_after = None
    /\ move_analyses = <<>>
    /\ player_losses = <<>>
    /\ opponent_losses = <<>>
    /\ phase_losses = [p \in GamePhase |-> <<>>]
    /\ blunders = 0
    /\ mistakes = 0
    /\ inaccuracies = 0
    /\ result = None
    /\ session = <<>>
    /\ is_analyzed = FALSE
    /\ analyzed_at = None

Init ==
    /\ parsed \in {None} \cup {Some(g) : g \in ParsedGames}
    /\ player_color \in Colors
    /\ pc = "parse"
    /\ i = 1
    /\ eval_before = None
    /\ eval_after = None
    /\ move_analyses = <<>>
    /\ player_losses = <<>>
    /\ opponent_losses = <<>>
    /\ phase_losses = [p \in GamePhase |-> <<>>]
    /\ blunders = 0
    /\ mistakes = 0
    /\ inaccuracies = 0
    /\ result = None
    /\ session = <<>>
    /\ is_analyzed = FALSE
    /\ analyzed_at = None
    /\ OracleIdle
    /\ BookIdle
    /\ WeaknessIdle
    /\ FnIdle
    /\ SyncIdle

acc_vars == <<move_analyses, player_losses, opponent_losses, phase_losses,
              blunders, mistakes, inaccuracies>>

game_vars == <<session, is_analyzed, analyzed_at>>

\* engine.py lines 49-51: parse failed, ValueError
ParseFailed ==
    /\ pc = "parse"
    /\ parsed = None
    /\ pc' = "raised"
    /\ UNCHANGED <<parsed, player_color, i, eval_before, eval_after, acc_vars,
                   result, game_vars, outstanding, oracle_log, rest_p>>

\* engine.py lines 49-53, stockfish_analyzer.py lines 87-98: enter analyze_game
ParseOk ==
    /\ pc = "parse"
    /\ parsed # None
    /\ pc' = "loop"
    /\ UNCHANGED <<parsed, player_color, i, eval_before, eval_after, acc_vars,
                   result, game_vars, outstanding, oracle_log, rest_p>>

CallEvalBothAtOnce ==
    /\ pc = "loop"
    /\ i <= Len(moves)
    /\ outstanding' = outstanding + 2
    /\ oracle_log' = oracle_log \o <<OracleCall("before"), OracleCall("after")>>
    /\ pc' = "await_before"
    /\ UNCHANGED <<parsed, player_color, i, eval_before, eval_after, acc_vars,
                   result, game_vars, rest_p>>

\* lines 100-102: the loop takes the next move and issues evaluate(fen_before)
CallEvalBefore ==
    /\ pc = "loop"
    /\ i <= Len(moves)
    /\ outstanding' = outstanding + 1
    /\ oracle_log' = Append(oracle_log, OracleCall("before"))
    /\ pc' = "await_before"
    /\ UNCHANGED <<parsed, player_color, i, eval_before, eval_after, acc_vars,
                   result, game_vars, rest_p>>

\* line 102: the evaluation arrives
EvalBeforeReturn ==
    /\ pc = "await_before"
    /\ \E e \in EngineEvals : eval_before' = Some(e)
    /\ outstanding' = outstanding - 1
    /\ UNCHANGED oracle_log
    /\ pc' = "sleep_before"
    /\ UNCHANGED <<parsed, player_color, i, eval_after, acc_vars,
                   result, game_vars, rest_p>>

EvalBeforeFailPartial ==
    /\ pc = "await_before"
    /\ outstanding' = outstanding - 1
    /\ UNCHANGED oracle_log
    /\ result' = Some(GameAnalysisResult)
    /\ pc' = "store"
    /\ UNCHANGED <<parsed, player_color, i, eval_before, eval_after, acc_vars,
                   game_vars, rest_p>>

\* line 102: evaluate raises (position_evaluator.py line 60); nothing in
\* analyze_game or in AnalysisEngine.analyze_game catches it
EvalBeforeFail ==
    /\ pc = "await_before"
    /\ outstanding' = outstanding - 1
    /\ UNCHANGED oracle_log
    /\ pc' = "raised"
    /\ UNCHANGED <<parsed, player_color, i, eval_before, eval_after, acc_vars,
                   result, game_vars, rest_p>>

\* line 103: asyncio.sleep(REQUEST_DELAY) has elapsed
SleepBefore ==
    /\ pc = "sleep_before"
    /\ oracle_log' = Append(oracle_log, Delay)
    /\ pc' = "call_after"
    /\ UNCHANGED <<parsed, player_color, i, eval_before, eval_after, acc_vars,
                   result, game_vars, outstanding, rest_p>>

\* line 106: issue evaluate(fen_after)
CallEvalAfter ==
    /\ pc = "call_after"
    /\ outstanding' = outstanding + 1
    /\ oracle_log' = Append(oracle_log, OracleCall("after"))
    /\ pc' = "await_after"
    /\ UNCHANGED <<parsed, player_color, i, eval_before, eval_after, acc_vars,
                   result, game_vars, rest_p>>

\* line 106: the evaluation arrives
EvalAfterReturn ==
    /\ pc = "await_after"
    /\ \E e \in EngineEvals : eval_after' = Some(e)
    /\ outstanding' = outstanding - 1
    /\ UNCHANGED oracle_log
    /\ pc' = "sleep_after"
    /\ UNCHANGED <<parsed, player_color, i, eval_before, acc_vars,
                   result, game_vars, rest_p>>

\* line 106: evaluate raises
EvalAfterFail ==
    /\ pc = "await_after"
    /\ outstanding' = outstanding - 1
    /\ UNCHANGED oracle_log
    /\ pc' = "raised"
    /\ UNCHANGED <<parsed, player_color, i, eval_before, eval_after, acc_vars,
                   result, game_vars, rest_p>>

\* line 107: asyncio.sleep(REQUEST_DELAY) has elapsed
SleepAfter ==
    /\ pc = "sleep_after"
    /\ oracle_log' = Append(oracle_log, Delay)
    /\ pc' = "record"
    /\ UNCHANGED <<parsed, player_color, i, eval_before, eval_after, acc_vars,
                   result, game_vars, outstanding, rest_p>>

\* lines 109-156: loss, classification, phase, accumulation, MoveAnalysis
RecordMove ==
    /\ pc = "record"
    /\ LET cp_loss == CpLoss(move.is_white, eval_before[1].score_cp, eval_after[1].score_cp)
           classification == Classify(cp_loss)
           phase == PhaseClassify(FenBoard(move.fen_before), move.move_number)
       IN  /\ IF IsPlayerMove(move.is_white, player_color)
              THEN /\ player_losses' = Append(player_losses, cp_loss)
                   /\ phase_losses' = [phase_losses EXCEPT ![phase] = Append(@, cp_loss)]
                   /\ blunders' = IF classification = "blunder" THEN blunders + 1 ELSE blunders
                   /\ mistakes' = IF classification = "mistake" THEN mistakes + 1 ELSE mistakes
                   /\ inaccuracies' =
                          IF classification = "inaccuracy" THEN inaccuracies + 1 ELSE inaccuracies
                   /\ UNCHANGED opponent_losses
              ELSE /\ opponent_losses' = Append(opponent_losses, cp_loss)
                   /\ UNCHANGED <<player_losses, phase_losses, blunders, mistakes, inaccuracies>>
           /\ move_analyses' =
                  Append(move_analyses,
                         MoveAnalysis(move, eval_before[1], eval_after[1], cp_loss,
                                      classification, phase))
    /\ i' = i + 1
    /\ pc' = "loop"
    /\ UNCHANGED <<parsed, player_color, eval_before, eval_after,
                   result, game_vars, outstanding, oracle_log, rest_p>>

\* lines 158-177: the loop is exhausted, analyze_game returns
ReturnResult ==
    /\ pc = "loop"
    /\ i > Len(moves)
    /\ result' = Some(GameAnalysisResult)
    /\ pc' = "store"
    /\ UNCHANGED <<parsed, player_color, i, eval_before, eval_after, acc_vars,
                   game_vars, outstanding, oracle_log, rest_p>>

\* engine.py lines 56-74
MoveEvaluation(move_analysis) ==
    [table |-> "MoveEvaluation",
     move_index |-> move_analysis.ply,
     is_white |-> move_analysis.is_white,
     san |-> move_analysis.san,
     uci |-> move_analysis.uci,
     fen_before |-> move_analysis.fen_before,
     fen_after |-> move_analysis.fen_after,
     best_move_uci |-> move_analysis.best_move_uci,
     best_move_san |-> move_analysis.best_move_san,
     score_before_cp |-> move_analysis.score_before_cp,
     score_after_cp |-> move_analysis.score_after_cp,
     centipawn_loss |-> move_analysis.centipawn_loss,
     classification |-> move_analysis.classification,
     clock_seconds |-> move_analysis.clock_seconds,
     game_phase |-> move_analysis.game_phase,
     engine_line |-> move_analysis.engine_line]

\* engine.py lines 78-88
AnalysisSummary(r) ==
    [table |-> "AnalysisSummary",
     player_acpl |-> r.player_acpl,
     opponent_acpl |-> r.opponent_acpl,
     blunder_count |-> r.blunder_count,
     mistake_count |-> r.mistake_count,
     inaccuracy_count |-> r.inaccuracy_count,
     opening_acpl |-> r.opening_acpl,
     middlegame_acpl |-> r.middlegame_acpl,
     endgame_acpl |-> r.endgame_acpl]

StoredMoves == SelectSeq(session, LAMBDA rec : rec.table = "MoveEvaluation")

StoredSummaries == SelectSeq(session, LAMBDA rec : rec.table = "AnalysisSummary")

RECURSIVE AddAll(_, _)
AddAll(sess, move_list) ==
    IF move_list = <<>> THEN sess
    ELSE AddAll(Append(sess, MoveEvaluation(Head(move_list))), Tail(move_list))

StoreMoveEvaluationsAndMark ==
    /\ pc = "store"
    /\ session' = AddAll(session, result[1].moves)
    /\ is_analyzed' = TRUE
    /\ analyzed_at' = Some("now")
    /\ pc' = "summary"
    /\ UNCHANGED <<parsed, player_color, i, eval_before, eval_after, acc_vars,
                   result, outstanding, oracle_log, rest_p>>

\* engine.py lines 55-75: session.add of one MoveEvaluation per MoveAnalysis
StoreMoveEvaluations ==
    /\ pc = "store"
    /\ session' = AddAll(session, result[1].moves)
    /\ pc' = "summary"
    /\ UNCHANGED <<parsed, player_color, i, eval_before, eval_after, acc_vars,
                   result, is_analyzed, analyzed_at, outstanding, oracle_log, rest_p>>

\* engine.py lines 77-89: session.add(summary) once the loop is over
StoreSummary ==
    /\ pc = "summary"
    /\ session' = Append(session, AnalysisSummary(result[1]))
    /\ pc' = "mark"
    /\ UNCHANGED <<parsed, player_color, i, eval_before, eval_after, acc_vars,
                   result, is_analyzed, analyzed_at, outstanding, oracle_log, rest_p>>

\* engine.py lines 91-100: mark the game, flush, return the summary
MarkAnalyzed ==
    /\ pc = "mark"
    /\ is_analyzed' = TRUE
    /\ analyzed_at' = Some("now")
    /\ pc' = "returned"
    /\ UNCHANGED <<parsed, player_color, i, eval_before, eval_after, acc_vars,
                   result, session, outstanding, oracle_log, rest_p>>

Next ==
    \/ ParseFailed
    \/ ParseOk
    \/ CallEvalBefore
    \/ EvalBeforeReturn
    \/ EvalBeforeFail
    \/ SleepBefore
    \/ CallEvalAfter
    \/ EvalAfterReturn
    \/ EvalAfterFail
    \/ SleepAfter
    \/ RecordMove
    \/ ReturnResult
    \/ StoreMoveEvaluations
    \/ StoreSummary
    \/ MarkAnalyzed

Spec == Init /\ [][Next]_vars

----------------------------------------------------------------------------
(* Claims about the pipeline (Spec) *)

IsMine(m) == m.is_white = (player_color = "white")

LossSeq(ms) == [j \in 1..Len(ms) |-> ms[j].centipawn_loss]

Mine(ms) == SelectSeq(ms, LAMBDA m : IsMine(m))

Theirs(ms) == SelectSeq(ms, LAMBDA m : ~IsMine(m))

MineIn(ms, phase) == SelectSeq(ms, LAMBDA m : IsMine(m) /\ m.game_phase = phase)

MineClassified(ms, c) == SelectSeq(ms, LAMBDA m : IsMine(m) /\ m.classification = c)

Mean(ls) == Frac(Sum(ls), Max(1, Len(ls)))

PhaseAcplOf(r, phase) ==
    CASE phase = "opening" -> r.opening_acpl
      [] phase = "middlegame" -> r.middlegame_acpl
      [] phase = "endgame" -> r.endgame_acpl

Calls == SelectSeq(oracle_log, LAMBDA e : e.ev = "call")

\* C2: once an evaluator call has failed there is no GameAnalysisResult,
\* nothing has been added to the session, game.is_analyzed and
\* game.analyzed_at are as they were, and the run is over.
C2_FailureLeavesNothing ==
    /\ pc = "raised" =>
          /\ result = None
          /\ session = <<>>
          /\ is_analyzed = FALSE
          /\ analyzed_at = None
          /\ ~ENABLED Next
    /\ result # None =>
          /\ Len(result[1].moves) = Len(moves)
          /\ Len(Calls) = 2 * Len(moves)
    /\ result = None => (session = <<>> /\ is_analyzed = FALSE /\ analyzed_at = None)

C2_Witness ==
    /\ pc = "raised"
    /\ Len(move_analyses) >= 1
    /\ Len(move_analyses) < Len(moves)
    /\ Len(Calls) = 2 * Len(move_analyses) + 2

SameMove(a, m) ==
    /\ a.ply = m.ply
    /\ a.is_white = m.is_white
    /\ a.san = m.san
    /\ a.uci = m.uci
    /\ a.fen_before = m.fen_before
    /\ a.fen_after = m.fen_after
    /\ a.clock_seconds = m.clock_seconds

\* C3: a returned GameAnalysisResult holds one MoveAnalysis per input move, in
\* input order, with ply, side, notation, positions and clock of the parsed
\* move; the session then receives one MoveEvaluation per move and one
\* AnalysisSummary, and game.is_analyzed is True only once all are added.
C3_AllMovesRecorded ==
    /\ result # None =>
          /\ Len(result[1].moves) = Len(moves)
          /\ \A j \in 1..Len(moves) : SameMove(result[1].moves[j], moves[j])
    /\ Len(StoredMoves) + Len(StoredSummaries) = Len(session)
    /\ Len(StoredSummaries) <= 1
    /\ session # <<>> =>
          /\ result # None
          /\ Len(StoredMoves) = Len(moves)
          /\ \A j \in 1..Len(moves) :
                /\ session[j] = MoveEvaluation(result[1].moves[j])
                /\ session[j].move_index = moves[j].ply
                /\ session[j].san = moves[j].san
    /\ is_analyzed =>
          /\ Len(StoredMoves) = Len(moves)
          /\ Len(StoredSummaries) = 1
          /\ session[Len(session)] = AnalysisSummary(result[1])
          /\ analyzed_at # None
    /\ pc = "returned" => is_analyzed

C3_Witness ==
    /\ is_analyzed
    /\ Len(moves) = 3
    /\ Len(session) = 4
    /\ session[2].clock_seconds # session[3].clock_seconds

\* C4: the evaluator calls of a run are issued in the order before(move 1),
\* after(move 1), before(move 2), ..., two per move (2N when the run
\* succeeds), and never while another call is outstanding.
C4_CallsSequential ==
    LET calls == Calls
    IN  /\ outstanding \in {0, 1}
        /\ \A j \in 1..Len(calls) :
              /\ calls[j].kind = (IF j % 2 = 1 THEN "before" ELSE "after")
              /\ calls[j].ply = moves[(j + 1) \div 2].ply
              /\ calls[j].ply = (j - 1) \div 2
        /\ Len(calls) <= 2 * Len(move_analyses) + 2
        /\ Len(calls) >= 2 * Len(move_analyses)
        /\ outstanding = 1 <=> pc \in {"await_before", "await_after"}
        /\ result # None => Len(calls) = 2 * Len(moves)

C4_Witness ==
    /\ result # None
    /\ Len(moves) = 3
    /\ Len(Calls) = 6

\* C5: the three counters count the player's moves classified BLUNDER, MISTAKE
\* and INACCURACY, the player-loss list and the phase buckets hold the
\* player's losses only, the opponent's moves go to the opponent-loss list
\* only, and player_acpl is the mean of the player's losses (a one-move game
\* by the player with loss 0: GOOD, 0.0, no blunder; with loss 900: BLUNDER,
\* one blunder, 900.0).
C5_CountersPlayerOnly ==
    /\ blunders = Len(MineClassified(move_analyses, "blunder"))
    /\ mistakes = Len(MineClassified(move_analyses, "mistake"))
    /\ inaccuracies = Len(MineClassified(move_analyses, "inaccuracy"))
    /\ player_losses = LossSeq(Mine(move_analyses))
    /\ opponent_losses = LossSeq(Theirs(move_analyses))
    /\ \A p \in GamePhase : phase_losses[p] = LossSeq(MineIn(move_analyses, p))
    /\ result # None =>
          LET r == result[1]
          IN  /\ r.blunder_count = Len(MineClassified(r.moves, "blunder"))
              /\ r.mistake_count = Len(MineClassified(r.moves, "mistake"))
              /\ r.inaccuracy_count = Len(MineClassified(r.moves, "inaccuracy"))
              /\ FracEq(r.player_acpl, Mean(LossSeq(Mine(r.moves))))
              /\ FracEq(r.opponent_acpl, Mean(LossSeq(Theirs(r.moves))))
              /\ (Len(r.moves) = 1 /\ IsMine(r.moves[1])) =>
                    LET a == r.moves[1]
                    IN  /\ FracEq(r.player_acpl, Frac(a.centipawn_loss, 1))
                        /\ r.blunder_count = (IF a.centipawn_loss > 100 THEN 1 ELSE 0)
                        /\ (a.centipawn_loss = 0 => a.classification = "good")
                        /\ (a.centipawn_loss > 100 => a.classification = "blunder")
    /\ CpLoss(TRUE, 20, 20) = 0 /\ Classify(0) = "good"
    /\ CpLoss(TRUE, 10, -890) = 900 /\ Classify(900) = "blunder"
    /\ FracEq(Avg(<<900>>), Frac(900, 1)) /\ FracEq(Avg(<<0>>), Frac(0, 1))

C5_Witness ==
    /\ result # None
    /\ Len(opponent_losses) = 1
    /\ opponent_losses[1] > 100
    /\ Len(player_losses) = 2
    /\ blunders = 1
    /\ inaccuracies = 1

\* C6: each per-phase ACPL of the result is None exactly when the player made
\* no move in that phase, and is otherwise the mean of the player's losses
\* in the phase (possibly 0.0); player_acpl and opponent_acpl are 0.0 when
\* their list is empty.
C6_PhaseAcplAbsentIffEmpty ==
    result # None =>
        LET r == result[1]
        IN  /\ \A p \in GamePhase :
                  LET ls == LossSeq(MineIn(r.moves, p))
                  IN  /\ PhaseAcplOf(r, p) = None <=> ls = <<>>
                      /\ ls # <<>> =>
                            FracEq(PhaseAcplOf(r, p)[1], Frac(Sum(ls), Len(ls)))
            /\ r.player_acpl.den >= 1
            /\ r.opponent_acpl.den >= 1
            /\ Mine(r.moves) = <<>> => r.player_acpl.num = 0
            /\ Theirs(r.moves) = <<>> => r.opponent_acpl.num = 0

C6_Witness ==
    /\ result # None
    /\ result[1].opening_acpl # None
    /\ result[1].opening_acpl[1].num = 0
    /\ result[1].middlegame_acpl # None
    /\ result[1].middlegame_acpl[1].num > 0
    /\ result[1].endgame_acpl = None

C6_WitnessEmptyGame ==
    /\ result # None
    /\ moves = <<>>
    /\ result[1].player_acpl = Frac(0, 1)
    /\ result[1].opening_acpl = None

----------------------------------------------------------------------------
(* SpecCpLoss: lines 109-116 of analyze_game applied to drawn scores.      *)
(* EngineEval.score_cp is +/-10000 for a mate (position_evaluator.py       *)
(* line 69) and int(eval * 100) otherwise.                                 *)

ScoreSamples ==
    {-10000, -5000, -1001, -1000, -890, -1, 0, 10, 20, 999, 1000, 1001, 5000, 10000}

InitCpLoss ==
    /\ fn_in \in { Some([fn |-> "cp_loss", is_white |-> w, score_before |-> b, score_after |-> a]) :
                     w \in BOOLEAN, b \in ScoreSamples, a \in ScoreSamples }
    /\ fn_out = None
    /\ PipelineIdle
    /\ OracleIdle
    /\ BookIdle
    /\ WeaknessIdle
    /\ SyncIdle

ApplyCpLoss ==
    /\ fn_out = None
    /\ fn_in[1].fn = "cp_loss"
    /\ fn_out' = Some(CpLoss(fn_in[1].is_white, fn_in[1].score_before, fn_in[1].score_after))
    /\ UNCHANGED <<fn_in, pvars, ovars, bvars, wvars, svars>>

NextCpLoss == ApplyCpLoss

SpecCpLoss == InitCpLoss /\ [][NextCpLoss]_vars

\* C1: the centipawn loss of a move is min(1000, max(0, d)), d being the drop
\* of the score seen from the mover's side; it lies in 0..1000 for every pair
\* of scores (mate scores included) and a swing of 5000 or more against the
\* mover gives exactly 1000.
C1_CpLossClamped ==
    fn_out # None =>
        LET x == fn_in[1]
            d == IF x.is_white THEN x.score_before - x.score_after
                 ELSE x.score_after - x.score_before
            loss == fn_out[1]
        IN  /\ loss \in 0..1000
            /\ (d <= 0 => loss = 0)
            /\ (d \in 0..1000 => loss = d)
            /\ (d >= 1000 => loss = 1000)
            /\ (d >= 5000 => loss = 1000)

C1_Witness ==
    /\ fn_out = Some(1000)
    /\ fn_in[1].is_white
    /\ fn_in[1].score_before - fn_in[1].score_after = 5000

----------------------------------------------------------------------------
(* SpecClassify: the two classifiers applied to drawn inputs *)

LossBound == 1200

Losses == (-LossBound)..LossBound

MoveNumberBound == 30

\* one side's pieces: material 0, 13, 14, 29, 30, 39 and (promoted queens) 48
SideSamples ==
    { PieceCount(0, 0, 0, 0, 0), PieceCount(5, 1, 0, 1, 0), PieceCount(6, 0, 1, 1, 0),
      PieceCount(7, 2, 2, 2, 0), PieceCount(8, 2, 2, 2, 0), PieceCount(8, 2, 2, 2, 1),
      PieceCount(8, 2, 2, 2, 2) }

BoardSamples == { [white |-> w, black |-> b] : w \in SideSamples, b \in SideSamples }

InitClassify ==
    /\ fn_in \in { Some([fn |-> "move", centipawn_loss |-> l]) : l \in Losses }
                 \cup { Some([fn |-> "phase", board |-> bd, move_number |-> n]) :
                          bd \in BoardSamples, n \in 1..MoveNumberBound }
    /\ fn_out = None
    /\ PipelineIdle
    /\ OracleIdle
    /\ BookIdle
    /\ WeaknessIdle
    /\ SyncIdle

ApplyMoveClassify ==
    /\ fn_out = None
    /\ fn_in[1].fn = "move"
    /\ fn_out' = Some(Classify(fn_in[1].centipawn_loss))
    /\ UNCHANGED <<fn_in, pvars, ovars, bvars, wvars, svars>>

ApplyPhaseClassify ==
    /\ fn_out = None
    /\ fn_in[1].fn = "phase"
    /\ fn_out' = Some(PhaseClassify(fn_in[1].board, fn_in[1].move_number))
    /\ UNCHANGED <<fn_in, pvars, ovars, bvars, wvars, svars>>

NextClassify == ApplyMoveClassify \/ ApplyPhaseClassify

SpecClassify == InitClassify /\ [][NextClassify]_vars

Severity(c) ==
    CASE c = "good" -> 0
      [] c = "inaccuracy" -> 1
      [] c = "mistake" -> 2
      [] c = "blunder" -> 3

\* C7: MoveClassifier.classify is defined on every integer loss, maps
\* loss <= 10 to GOOD, 11..50 to INACCURACY, 51..100 to MISTAKE and
\* loss >= 101 to BLUNDER, never answers BOOK or BRILLIANT, and a smaller
\* loss never gets a more severe class.
C7_MoveClassifier ==
    (fn_out # None /\ fn_in[1].fn = "move") =>
        LET l == fn_in[1].centipawn_loss
            c == fn_out[1]
        IN  /\ c \in {"good", "inaccuracy", "mistake", "blunder"}
            /\ (l <= 10 <=> c = "good")
            /\ (l \in 11..50 <=> c = "inaccuracy")
            /\ (l \in 51..100 <=> c = "mistake")
            /\ (l >= 101 <=> c = "blunder")
            /\ \A l2 \in Losses : l2 <= l => Severity(Classify(l2)) <= Severity(c)

C7_Witness ==
    /\ fn_out = Some("mistake")
    /\ fn_in[1].fn = "move"
    /\ fn_in[1].centipawn_loss = 100

SideMaterial(side) ==
    side.pawn + 3 * side.knight + 3 * side.bishop + 5 * side.rook + 9 * side.queen

\* C8: PhaseClassifier.classify answers OPENING iff move_number <= 12 and
\* material >= 60, otherwise ENDGAME iff material <= 26, otherwise
\* MIDDLEGAME; material counts pawn 1, knight 3, bishop 3, rook 5, queen 9
\* over both sides, kings not counted.
C8_PhaseClassifier ==
    (fn_out # None /\ fn_in[1].fn = "phase") =>
        LET bd == fn_in[1].board
            n == fn_in[1].move_number
            material == SideMaterial(bd.white) + SideMaterial(bd.black)
            phase == fn_out[1]
            opening == n <= 12 /\ material >= 60
        IN  /\ TotalMaterial(bd) = material
            /\ phase \in GamePhase
            /\ (phase = "opening" <=> opening)
            /\ (phase = "endgame" <=> (~opening /\ material <= 26))
            /\ (phase = "middlegame" <=> (~opening /\ material > 26))
            /\ (material <= 26 /\ n <= 12 => phase = "endgame")
            /\ (material = 60 /\ n = 12 => phase = "opening")
            /\ (material = 60 /\ n = 13 => phase = "middlegame")
            /\ (material = 26 /\ n = 30 => phase = "endgame")
            /\ (material = 27 /\ n = 30 => phase = "middlegame")

C8_Witness ==
    /\ fn_out = Some("opening")
    /\ fn_in[1].fn = "phase"
    /\ fn_in[1].move_number = 12
    /\ TotalMaterial(fn_in[1].board) = 60

----------------------------------------------------------------------------
(* services/opening_analyzer.py: OpeningAnalyzer.find_book_deviation.      *)
(* A position (board.fen()) is the list of moves pushed so far.            *)

MaxPlies == 3

BOOK_PLY_LIMIT == 40

UciMoves == {"u1", "u2"}

\* board.san(move)
SanOf(uci) == IF uci = "u1" THEN "s1" ELSE "s2"

ExplorerMove(uci, san, w, d, b) ==
    [uci |-> uci, san |-> san, white |-> w, draws |-> d, black |-> b]

\* the "moves" list of a successful explorer response
ExplorerTables ==
    { <<>>,
      <<ExplorerMove("u1", "s1", 6, 3, 1)>>,
      <<ExplorerMove("u2", "s2", 0, 0, 0), ExplorerMove("u3", "s3", 1, 1, 2)>>,
      <<ExplorerMove("u2", "s2", 5, 0, 5), ExplorerMove("u3", "s3", 1, 1, 2),
        ExplorerMove("u4", "s4", 1, 0, 0), ExplorerMove("u5", "s5", 0, 1, 0),
        ExplorerMove("u6", "s6", 0, 0, 1), ExplorerMove("u7", "s7", 2, 2, 2)>> }

\* mainlines: every line of at most MaxPlies plies, and lines that run past
\* ply 40 in which only u1 is played before ply 38
ShortLines == UNION { [1..n -> UciMoves] : n \in 0..MaxPlies }

LongLines ==
    { [j \in 1..(BOOK_PLY_LIMIT + 2) |-> IF j \in late THEN "u2" ELSE "u1"] :
        late \in SUBSET {BOOK_PLY_LIMIT - 1, BOOK_PLY_LIMIT, BOOK_PLY_LIMIT + 1} }

bk_line == bk_game[1]

bk_move == bk_line[bk_ply + 1]

\* lines 176-177
BookIsPlayerMove == (bk_ply % 2 = 0) = (bk_color = "white")

\* lines 194-207
BookMove(m) ==
    [san |-> m.san,
     uci |-> m.uci,
     games |-> m.white + m.draws + m.black,
     win_rate |-> Frac(m.white, Max(1, m.white + m.draws + m.black))]

BookDeviationUntruncated(book_moves_data) ==
    [move_number |-> (bk_ply \div 2) + 1,
     player_played |-> SanOf(bk_move),
     player_played_uci |-> bk_move,
     book_moves |-> [j \in 1..Len(book_moves_data) |-> BookMove(book_moves_data[j])],
     fen |-> bk_board]

\* lines 189-211
BookDeviation(book_moves_data) ==
    [move_number |-> (bk_ply \div 2) + 1,
     player_played |-> SanOf(bk_move),
     player_played_uci |-> bk_move,
     book_moves |-> [j \in 1..Min(5, Len(book_moves_data)) |-> BookMove(book_moves_data[j])],
     fen |-> bk_board]

\* lines 186-188
IsDeviation(book_moves_data) ==
    /\ book_moves_data # <<>>
    /\ bk_move \notin { book_moves_data[j].uci : j \in 1..Len(book_moves_data) }

InitBook ==
    /\ bk_game \in {None} \cup { Some(l) : l \in ShortLines \cup LongLines }
    /\ bk_color \in Colors
    /\ bk_pc = "start"
    /\ bk_ply = 0
    /\ bk_board = <<>>
    /\ bk_result = None
    /\ bk_failures = 0
    /\ bk_book_data = None
    /\ OracleIdle
    /\ PipelineIdle
    /\ WeaknessIdle
    /\ FnIdle
    /\ SyncIdle

rest_b == <<pvars, wvars, fvars, svars>>

\* lines 167-169: the PGN holds no game
BookNoGame ==
    /\ bk_pc = "start"
    /\ bk_game = None
    /\ bk_pc' = "returned"
    /\ UNCHANGED <<bk_game, bk_color, bk_ply, bk_board, bk_result, bk_failures, bk_book_data,
                 ovars, rest_b>>

\* lines 171-174
BookStart ==
    /\ bk_pc = "start"
    /\ bk_game # None
    /\ bk_pc' = "scan"
    /\ UNCHANGED <<bk_game, bk_color, bk_ply, bk_board, bk_result, bk_failures, bk_book_data,
                 ovars, rest_b>>

\* lines 174, 179-180, 215: the mainline is exhausted or ply 40 is reached
BookScanEnd ==
    /\ bk_pc = "scan"
    /\ (bk_ply >= Len(bk_line) \/ bk_ply >= BOOK_PLY_LIMIT)
    /\ bk_pc' = "returned"
    /\ UNCHANGED <<bk_game, bk_color, bk_ply, bk_board, bk_result, bk_failures, bk_book_data,
                 ovars, rest_b>>

\* lines 174-182, 213: a move of the other side is pushed
BookOpponentMove ==
    /\ bk_pc = "scan"
    /\ bk_ply < Len(bk_line)
    /\ bk_ply < BOOK_PLY_LIMIT
    /\ ~BookIsPlayerMove
    /\ bk_board' = Append(bk_board, bk_move)
    /\ bk_ply' = bk_ply + 1
    /\ UNCHANGED <<bk_game, bk_color, bk_pc, bk_result, bk_failures, bk_book_data,
                 ovars, rest_b>>

\* lines 182-183, 228: the explorer is queried for the position
BookQuery ==
    /\ bk_pc = "scan"
    /\ bk_ply < Len(bk_line)
    /\ bk_ply < BOOK_PLY_LIMIT
    /\ BookIsPlayerMove
    /\ outstanding' = outstanding + 1
    /\ oracle_log' = Append(oracle_log, [ev |-> "call", oracle |-> "explorer", ply |-> bk_ply])
    /\ bk_pc' = "await_explorer"
    /\ UNCHANGED <<bk_game, bk_color, bk_ply, bk_board, bk_result, bk_failures, bk_book_data,
                 rest_b>>

\* lines 184-213 after a response: a deviation is returned, or the move is pushed
BookAfterQuery(book_moves_data) ==
    /\ bk_book_data' = Some(book_moves_data)
    /\ IF IsDeviation(book_moves_data)
       THEN /\ bk_result' = Some(BookDeviation(book_moves_data))
            /\ bk_pc' = "returned"
            /\ UNCHANGED <<bk_ply, bk_board>>
       ELSE /\ bk_board' = Append(bk_board, bk_move)
            /\ bk_ply' = bk_ply + 1
            /\ bk_pc' = "scan"
            /\ UNCHANGED bk_result

\* lines 237-238: the explorer answers
BookQueryReturn ==
    /\ bk_pc = "await_explorer"
    /\ outstanding' = outstanding - 1
    /\ \E t \in ExplorerTables : BookAfterQuery(t)
    /\ UNCHANGED <<bk_game, bk_color, bk_failures, oracle_log, rest_b>>

BookQueryFailRaises ==
    /\ bk_pc = "await_explorer"
    /\ outstanding' = outstanding - 1
    /\ bk_failures' = bk_failures + 1
    /\ bk_pc' = "raised"
    /\ UNCHANGED <<bk_game, bk_color, bk_ply, bk_board, bk_result, bk_book_data,
                   oracle_log, rest_b>>

\* lines 239-241: the query fails and is answered as {"moves": []}
BookQueryFail ==
    /\ bk_pc = "await_explorer"
    /\ outstanding' = outstanding - 1
    /\ bk_failures' = bk_failures + 1
    /\ BookAfterQuery(<<>>)
    /\ UNCHANGED <<bk_game, bk_color, oracle_log, rest_b>>

NextBook ==
    \/ BookNoGame
    \/ BookStart
    \/ BookScanEnd
    \/ BookOpponentMove
    \/ BookQuery
    \/ BookQueryReturn
    \/ BookQueryFail

SpecBook == InitBook /\ [][NextBook]_vars

\* C9: every oracle call of a game is followed by the inter-call delay before
\* the next oracle call of that game is issued: no two calls are adjacent in
\* the history of calls and delays.
C9_DelayBetweenCalls ==
    \A j \in 1..(Len(oracle_log) - 1) :
        ~(oracle_log[j].ev = "call" /\ oracle_log[j + 1].ev = "call")

----------------------------------------------------------------------------
(* services/weakness_detector.py: WeaknessDetector.  A dict is kept as the *)
(* list of its (key, value) pairs in insertion order where that order is   *)
(* read (max over a dict), as a function otherwise.                        *)

RUSH_THRESHOLD == 60

ColorOfWhite(colors, game_id) == "white"

\* player_color_per_game.get(game_id, "white")
ColorOf(colors, game_id) ==
    IF game_id \in DOMAIN colors THEN colors[game_id] ELSE "white"

\* lines 59-66
WdEmpty ==
    [blunders_by_phase |-> [p \in GamePhase |-> 0],
     moves_by_phase |-> [p \in GamePhase |-> 0],
     blunders_by_move_number |-> <<>>,
     time_blunders |-> <<>>,
     time_non_blunders |-> <<>>,
     top_blunders |-> <<>>,
     total_player_moves |-> 0,
     total_blunders |-> 0]

\* d[k] += 1 on a defaultdict(int)
DictIncr(d, k) ==
    IF \E j \in 1..Len(d) : d[j][1] = k
    THEN [j \in 1..Len(d) |-> IF d[j][1] = k THEN <<k, d[j][2] + 1>> ELSE d[j]]
    ELSE Append(d, <<k, 1>>)

IsBlunderStrict(ev) == ev.classification = "blunder"

\* lines 82, 102
IsBlunder(ev) == ev.classification \in {"blunder", "mistake"}

\* lines 90-97
TopBlunderEntry(ev) ==
    [game_id |-> ev.game_id,
     move_index |-> ev.move_index,
     san |-> ev.san,
     centipawn_loss |-> ev.centipawn_loss,
     phase |-> ev.game_phase]

\* lines 68-105: the loop body for one record
WdStep(acc, ev, colors) ==
    LET is_player_white == ColorOf(colors, ev.game_id) = "white"
        is_player_move == ev.is_white = is_player_white
        phase == ev.game_phase
        is_blunder == IsBlunder(ev)
        counted ==
            [acc EXCEPT !.total_player_moves = @ + 1,
                        !.moves_by_phase[phase] = @ + 1]
        blundered ==
            IF is_blunder
            THEN [counted EXCEPT
                    !.total_blunders = @ + 1,
                    !.blunders_by_phase[phase] = @ + 1,
                    !.blunders_by_move_number = DictIncr(@, (ev.move_index \div 2) + 1),
                    !.top_blunders =
                        IF ev.centipawn_loss > 100 THEN Append(@, TopBlunderEntry(ev)) ELSE @]
            ELSE counted
        clocked ==
            IF ev.clock_seconds # None
            THEN IF is_blunder
                 THEN [blundered EXCEPT
                         !.time_blunders = Append(@, <<ev.clock_seconds[1], ev.centipawn_loss>>)]
                 ELSE [blundered EXCEPT
                         !.time_non_blunders = Append(@, ev.clock_seconds[1])]
            ELSE blundered
    IN  IF ~is_player_move THEN acc ELSE clocked

RECURSIVE WdLoop(_, _, _)
WdLoop(acc, evs, colors) ==
    IF evs = <<>> THEN acc ELSE WdLoop(WdStep(acc, Head(evs), colors), Tail(evs), colors)

\* rate_under / max(0.01, rate_over)
Multiplier(rate_under, rate_over) ==
    LET floor == IF FracLt(Frac(1, 100), rate_over) THEN rate_over ELSE Frac(1, 100)
    IN  Frac(rate_under.num * floor.den, rate_under.den * floor.num)

VerdictInclusive(multiplier) ==
    IF FracLe(Frac(2, 1), multiplier) THEN "strong"
    ELSE IF FracLe(Frac(3, 2), multiplier) THEN "mild"
    ELSE "consistent"

\* lines 167-172: the tier of the verdict text
Verdict(multiplier) ==
    IF FracLt(Frac(2, 1), multiplier) THEN "strong"
    ELSE IF FracLt(Frac(3, 2), multiplier) THEN "mild"
    ELSE "consistent"

\* lines 136-179
AnalyzeRushing(time_blunders, time_non_blunders, total_moves) ==
    LET threshold == RUSH_THRESHOLD
        under_threshold_blunders == SelectSeq(time_blunders, LAMBDA tb : tb[1] < threshold)
        over_threshold_blunders == SelectSeq(time_blunders, LAMBDA tb : tb[1] >= threshold)
        under_threshold_nonblunders == SelectSeq(time_non_blunders, LAMBDA t : t < threshold)
        over_threshold_nonblunders == SelectSeq(time_non_blunders, LAMBDA t : t >= threshold)
        moves_under == Len(under_threshold_blunders) + Len(under_threshold_nonblunders)
        moves_over == Len(over_threshold_blunders) + Len(over_threshold_nonblunders)
        rate_under == Frac(Len(under_threshold_blunders), Max(1, moves_under))
        rate_over == Frac(Len(over_threshold_blunders), Max(1, moves_over))
        multiplier == Multiplier(rate_under, rate_over)
    IN  [blunder_rate_under_60s |-> rate_under,
         blunder_rate_over_60s |-> rate_over,
         time_trouble_multiplier |-> multiplier,
         verdict |-> Verdict(multiplier)]

\* max(d, key=d.get) over the pairs of a non-empty dict: the first key, in
\* insertion order, whose value no other value exceeds
MaxKey(d) ==
    LET best == CHOOSE j \in 1..Len(d) :
                    /\ \A l \in 1..Len(d) : FracLe(d[l][2], d[j][2])
                    /\ \A l \in 1..(j - 1) : FracLt(d[l][2], d[j][2])
    IN  d[best][1]

DetectPatternsInclusive(phase_breakdown, rushing, heatmap) ==
    LET breakdown == [j \in 1..3 |->
                        LET p == <<"opening", "middlegame", "endgame">>[j]
                        IN  <<p, phase_breakdown[p]>>]
        worst_phase == MaxKey(breakdown)
        counts == [j \in 1..Len(heatmap) |-> <<heatmap[j][1], Frac(heatmap[j][2], 1)>>]
        peak_move == MaxKey(counts)
        peak_count == (CHOOSE j \in 1..Len(heatmap) : heatmap[j][1] = peak_move)
    IN  (IF FracLe(Frac(1, 10), phase_breakdown[worst_phase])
         THEN <<[kind |-> "worst_phase", phase |-> worst_phase,
                 rate |-> phase_breakdown[worst_phase]]>>
         ELSE <<>>)
        \o (IF FracLe(Frac(2, 1), rushing.time_trouble_multiplier)
            THEN <<[kind |-> "rushing", multiplier |-> rushing.time_trouble_multiplier]>>
            ELSE <<>>)
        \o (IF heatmap # <<>> /\ heatmap[peak_count][2] > 3
            THEN <<[kind |-> "cluster", move |-> peak_move]>>
            ELSE <<>>)

\* lines 181-219
DetectPatterns(phase_breakdown, rushing, heatmap) ==
    LET breakdown == [j \in 1..3 |->
                        LET p == <<"opening", "middlegame", "endgame">>[j]
                        IN  <<p, phase_breakdown[p]>>]
        worst_phase == MaxKey(breakdown)
        counts == [j \in 1..Len(heatmap) |-> <<heatmap[j][1], Frac(heatmap[j][2], 1)>>]
        peak_move == MaxKey(counts)
        peak_count == (CHOOSE j \in 1..Len(heatmap) : heatmap[j][1] = peak_move)
    IN  (IF FracLt(Frac(1, 10), phase_breakdown[worst_phase])
         THEN <<[kind |-> "worst_phase", phase |-> worst_phase,
                 rate |-> phase_breakdown[worst_phase]]>>
         ELSE <<>>)
        \o (IF FracLt(Frac(2, 1), rushing.time_trouble_multiplier)
            THEN <<[kind |-> "rushing", multiplier |-> rushing.time_trouble_multiplier]>>
            ELSE <<>>)
        \o (IF heatmap # <<>> /\ heatmap[peak_count][2] >= 3
            THEN <<[kind |-> "cluster", move |-> peak_move]>>
            ELSE <<>>)

\* list.sort(key=centipawn_loss, reverse=True): stable, highest loss first
RECURSIVE SortByLossDesc(_)
SortByLossDesc(lst) ==
    IF lst = <<>> THEN <<>>
    ELSE LET sorted == SortByLossDesc(SubSeq(lst, 1, Len(lst) - 1))
             x == lst[Len(lst)]
             keep == Len(SelectSeq(sorted, LAMBDA y : y.centipawn_loss >= x.centipawn_loss))
         IN  SubSeq(sorted, 1, keep) \o <<x>> \o SubSeq(sorted, keep + 1, Len(sorted))

TopTenUntruncated(lst) == lst

\* line 132: top_blunders[:10]
TopTen(lst) == Take(lst, 10)

\* lines 59-134
Analyze(move_evaluations, player_color_per_game) ==
    LET acc == WdLoop(WdEmpty, move_evaluations, player_color_per_game)
        phase_breakdown ==
            [p \in GamePhase |-> Frac(acc.blunders_by_phase[p], Max(1, acc.moves_by_phase[p]))]
        rushing == AnalyzeRushing(acc.time_blunders, acc.time_non_blunders,
                                  acc.total_player_moves)
        top_blunders == SortByLossDesc(acc.top_blunders)
        patterns == DetectPatterns(phase_breakdown, rushing, acc.blunders_by_move_number)
    IN  [overall_blunder_rate |-> Frac(acc.total_blunders, Max(1, acc.total_player_moves)),
         phase_breakdown |-> phase_breakdown,
         move_number_heatmap |-> acc.blunders_by_move_number,
         rushing_analysis |-> rushing,
         top_blunders |-> TopTen(top_blunders),
         recurring_patterns |-> patterns]

----------------------------------------------------------------------------
(* SpecWeakness: analyze applied to the stored evaluations of one game *)

MaxEvals == 5

\* what a stored MoveEvaluation holds besides its place in the game
WdKinds ==
    { [san |-> "e4", centipawn_loss |-> 0, classification |-> "good",
       game_phase |-> "opening", clock_seconds |-> None],
      [san |-> "Nf3", centipawn_loss |-> 5, classification |-> "good",
       game_phase |-> "middlegame", clock_seconds |-> Some(90)],
      [san |-> "Qxb7", centipawn_loss |-> 300, classification |-> "blunder",
       game_phase |-> "middlegame", clock_seconds |-> Some(45)],
      [san |-> "Rd1", centipawn_loss |-> 80, classification |-> "mistake",
       game_phase |-> "endgame", clock_seconds |-> Some(60)],
      [san |-> "h3", centipawn_loss |-> 30, classification |-> "inaccuracy",
       game_phase |-> "opening", clock_seconds |-> Some(59)] }

\* api/weaknesses.py lines 40-53: the dict built from the row of ply move_index
EvDict(game_id, move_index, k) ==
    [game_id |-> game_id,
     move_index |-> move_index,
     is_white |-> (move_index % 2 = 0),
     san |-> k.san,
     centipawn_loss |-> k.centipawn_loss,
     classification |-> k.classification,
     game_phase |-> k.game_phase,
     clock_seconds |-> k.clock_seconds]

EvLists(longest) ==
    UNION { { [j \in 1..n |-> EvDict(1, j - 1, ks[j])] : ks \in [1..n -> WdKinds] }
            : n \in 0..longest }

MaxGames == 3

\* the kinds drawn for the records of several short games
GameKinds ==
    { k \in WdKinds : k.san \in {"Nf3", "Qxb7"} }

\* the first two plies of each of n games, in game order (api/weaknesses.py
\* selects the evaluations of all the player's games)
ManyGames(n) ==
    { [j \in 1..(2 * n) |-> EvDict((j + 1) \div 2, (j + 1) % 2, ks[j])] :
        ks \in [1..(2 * n) -> GameKinds] }

MaxLong == 11

LongKinds ==
    { [san |-> "Qxb7", centipawn_loss |-> 300, classification |-> "blunder",
       game_phase |-> "middlegame", clock_seconds |-> Some(45)],
      [san |-> "Bxh7", centipawn_loss |-> 150, classification |-> "blunder",
       game_phase |-> "endgame", clock_seconds |-> None] }

\* the blunders of the first six moves of the long games
LongOpening ==
    [j \in 1..6 |-> CHOOSE k \in LongKinds :
                       k.centipawn_loss = (IF j \in {1, 4, 6} THEN 300 ELSE 150)]

\* one game of n full moves in which White blunders on every move and Black
\* answers with the same quiet move
LongGames(longest) ==
    UNION { { [j \in 1..(2 * n) |->
                 EvDict(1, j - 1,
                        IF j % 2 = 1 THEN (LongOpening \o ks)[(j + 1) \div 2]
                        ELSE [san |-> "Kh8", centipawn_loss |-> 0,
                              classification |-> "good", game_phase |-> "middlegame",
                              clock_seconds |-> Some(90)])] :
              ks \in [1..(n - 6) -> LongKinds] }
            : n \in (longest - 1)..longest }

\* api/weaknesses.py line 38: color_map holds every game of the records
InitWeakness ==
    /\ \/ /\ wd_evs \in EvLists(MaxEvals) \cup LongGames(MaxLong)
          /\ wd_colors \in { <<c>> : c \in Colors }
       \/ \E n \in 2..MaxGames :
             /\ wd_evs \in ManyGames(n)
             /\ wd_colors \in [1..n -> Colors]
    /\ wd_report = None
    /\ PipelineIdle
    /\ OracleIdle
    /\ BookIdle
    /\ FnIdle
    /\ SyncIdle

\* api/weaknesses.py line 56
WdAnalyze ==
    /\ wd_report = None
    /\ wd_report' = Some(Analyze(wd_evs, wd_colors))
    /\ UNCHANGED <<wd_evs, wd_colors, pvars, ovars, bvars, fvars, svars>>

NextWeakness == WdAnalyze

SpecWeakness == InitWeakness /\ [][NextWeakness]_vars

----------------------------------------------------------------------------
(* Claims about the rushing analysis (SpecWeakness) *)

\* the plies of wd_evs played by the player with a clock reading
ClockedMine ==
    { j \in 1..Len(wd_evs) :
        /\ wd_evs[j].is_white = (ColorOf(wd_colors, wd_evs[j].game_id) = "white")
        /\ wd_evs[j].clock_seconds # None }

BlundersAmong(js) ==
    Cardinality({ j \in js : wd_evs[j].classification \in {"blunder", "mistake"} })

\* the claim's scenario: ten player moves, two blunders at clock 45 and
\* eight non-blunders at clock 90
RushingScenario ==
    [j \in 1..10 |->
        [game_id |-> 1, move_index |-> 2 * (j - 1), is_white |-> TRUE,
         san |-> "Nf3",
         centipawn_loss |-> IF j \in {4, 9} THEN 300 ELSE 5,
         classification |-> IF j \in {4, 9} THEN "blunder" ELSE "good",
         game_phase |-> "middlegame",
         clock_seconds |-> IF j \in {4, 9} THEN Some(45) ELSE Some(90)]]

\* C10: the rushing analysis splits the player's clocked moves at clock < 60
\* against clock >= 60; rate_under = blunders_under / max(1, moves_under),
\* rate_over = blunders_over / max(1, moves_over), multiplier = rate_under /
\* max(0.01, rate_over), a finite non-negative number; the verdict is strong
\* iff multiplier > 2, mild iff 1.5 < multiplier <= 2, consistent otherwise.
\* Two blunders at clock 45 with eight non-blunders at clock 90 give the
\* multiplier 100 and the strong verdict; a multiplier of exactly 1.5 is
\* consistent.
C10_RushingAnalysis ==
    /\ wd_report # None =>
        LET r == wd_report[1].rushing_analysis
            m == r.time_trouble_multiplier
            under == { j \in ClockedMine : wd_evs[j].clock_seconds[1] < 60 }
            over == { j \in ClockedMine : wd_evs[j].clock_seconds[1] >= 60 }
            bu == BlundersAmong(under)
            bo == BlundersAmong(over)
            mu == IF Cardinality(under) >= 1 THEN Cardinality(under) ELSE 1
            mo == IF Cardinality(over) >= 1 THEN Cardinality(over) ELSE 1
        IN  /\ r.blunder_rate_under_60s.den > 0
            /\ r.blunder_rate_under_60s.num * mu = bu * r.blunder_rate_under_60s.den
            /\ r.blunder_rate_over_60s.den > 0
            /\ r.blunder_rate_over_60s.num * mo = bo * r.blunder_rate_over_60s.den
            /\ m.den > 0
            /\ m.num >= 0
            /\ IF 100 * bo >= mo
               THEN m.num * (mu * bo) = m.den * (bu * mo)
               ELSE m.num * mu = m.den * (100 * bu)
            /\ r.verdict \in {"strong", "mild", "consistent"}
            /\ (r.verdict = "strong") <=> (m.num > 2 * m.den)
            /\ (r.verdict = "mild") <=> (2 * m.num > 3 * m.den /\ m.num <= 2 * m.den)
            /\ (r.verdict = "consistent") <=> (2 * m.num <= 3 * m.den)
    /\ LET r == Analyze(RushingScenario, <<"white">>).rushing_analysis
       IN  /\ r.time_trouble_multiplier.num = 100 * r.time_trouble_multiplier.den
           /\ r.verdict = "strong"
    /\ LET r == AnalyzeRushing(<<<<45, 300>>, <<60, 80>>, <<60, 80>>>>, <<90>>, 4)
       IN  /\ 2 * r.time_trouble_multiplier.num = 3 * r.time_trouble_multiplier.den
           /\ r.verdict = "consistent"

\* a report whose multiplier is 100 (a blunder under 60 seconds, no blunder
\* among the moves at 60 or more) with the strong verdict
C10_Witness ==
    /\ wd_report # None
    /\ wd_report[1].rushing_analysis.verdict = "strong"
    /\ wd_report[1].rushing_analysis.time_trouble_multiplier.num
         = 100 * wd_report[1].rushing_analysis.time_trouble_multiplier.den
    /\ \E j \in ClockedMine : wd_evs[j].clock_seconds[1] >= 60
    /\ \E j \in ClockedMine :
         wd_evs[j].clock_seconds[1] < 60 /\ wd_evs[j].classification = "blunder"

\* a report whose multiplier is exactly 2: the mild verdict
C10_WitnessBoundary ==
    /\ wd_report # None
    /\ wd_report[1].rushing_analysis.verdict = "mild"
    /\ wd_report[1].rushing_analysis.time_trouble_multiplier.num
         = 2 * wd_report[1].rushing_analysis.time_trouble_multiplier.den

----------------------------------------------------------------------------
(* Claims about the WeaknessReport (SpecWeakness) *)

\* the positions in wd_evs of the records made by the player of their game
PlayerRecords ==
    { j \in 1..Len(wd_evs) :
        wd_evs[j].is_white = (wd_colors[wd_evs[j].game_id] = "white") }

\* the player's blunders (blunder or mistake) that lost more than 100
BigBlunders ==
    { j \in PlayerRecords :
        /\ wd_evs[j].classification \in {"blunder", "mistake"}
        /\ wd_evs[j].centipawn_loss > 100 }

IsEntryOf(e, j) ==
    /\ e.game_id = wd_evs[j].game_id
    /\ e.move_index = wd_evs[j].move_index
    /\ e.san = wd_evs[j].san
    /\ e.centipawn_loss = wd_evs[j].centipawn_loss
    /\ e.phase = wd_evs[j].game_phase

\* C11: top_blunders holds every player blunder with loss > 100 when there
\* are at most 10, otherwise exactly the 10 with the highest loss; it is in
\* non-increasing order of loss, has at most 10 entries, and holds no move
\* with loss <= 100 and no move of the opponent.
C11_TopBlunders ==
    wd_report # None =>
        LET top == wd_report[1].top_blunders
            big == BigBlunders
            shown == { j \in big : \E l \in 1..Len(top) : IsEntryOf(top[l], j) }
        IN  /\ Len(top) <= 10
            /\ Len(top) = (IF Cardinality(big) <= 10 THEN Cardinality(big) ELSE 10)
            /\ \A l \in 1..Len(top) :
                  /\ top[l].centipawn_loss > 100
                  /\ \E j \in big : IsEntryOf(top[l], j)
            /\ \A l \in 1..Len(top) : \A n \in 1..Len(top) :
                  l < n => /\ top[l].centipawn_loss >= top[n].centipawn_loss
                           /\ top[l] # top[n]
            /\ Cardinality(shown) = Len(top)
            /\ Cardinality(big) <= 10 => shown = big
            /\ \A j \in big \ shown : \A l \in 1..Len(top) :
                  wd_evs[j].centipawn_loss <= top[l].centipawn_loss

\* more than 10 qualifying blunders, of two different losses, some of the
\* lower loss left out
C11_Witness ==
    /\ wd_report # None
    /\ Cardinality(BigBlunders) > 10
    /\ Len(wd_report[1].top_blunders) = 10
    /\ wd_report[1].top_blunders[1].centipawn_loss = 300
    /\ wd_report[1].top_blunders[10].centipawn_loss = 150
    /\ wd_evs[3].centipawn_loss = 150
    /\ wd_evs[Len(wd_evs) - 1].centipawn_loss = 300

PlayerIn(p) == { j \in PlayerRecords : wd_evs[j].game_phase = p }

BlunderRecords(js) ==
    { j \in js : wd_evs[j].classification \in {"blunder", "mistake"} }

\* C12: phase_breakdown has exactly the keys opening, middlegame and endgame,
\* each value being blunders[p] / max(1, moves[p]) over the player's moves:
\* 0 (not absent) for a phase without player moves and always within [0,1];
\* an empty input gives 0 for all three and an overall_blunder_rate of 0.
C12_PhaseBreakdown ==
    /\ wd_report # None =>
        LET r == wd_report[1]
        IN  /\ DOMAIN r.phase_breakdown = {"opening", "middlegame", "endgame"}
            /\ \A p \in DOMAIN r.phase_breakdown :
                  LET v == r.phase_breakdown[p]
                      n == Cardinality(PlayerIn(p))
                      b == Cardinality(BlunderRecords(PlayerIn(p)))
                  IN  /\ v.den >= 1
                      /\ v.num * (IF n >= 1 THEN n ELSE 1) = b * v.den
                      /\ 0 <= v.num
                      /\ v.num <= v.den
                      /\ n = 0 => v.num = 0
            /\ r.overall_blunder_rate.den >= 1
            /\ r.overall_blunder_rate.num
                 * (IF PlayerRecords = {} THEN 1 ELSE Cardinality(PlayerRecords))
                 = Cardinality(BlunderRecords(PlayerRecords)) * r.overall_blunder_rate.den
            /\ wd_evs = <<>> =>
                  /\ \A p \in DOMAIN r.phase_breakdown : r.phase_breakdown[p].num = 0
                  /\ r.overall_blunder_rate.num = 0
    /\ LET r == Analyze(<<>>, <<>>)
       IN  /\ \A p \in {"opening", "middlegame", "endgame"} : r.phase_breakdown[p].num = 0
           /\ r.overall_blunder_rate.num = 0

\* a phase without player moves reported as 0 beside a phase whose rate,
\* owed to a mistake, lies strictly between 0 and 1
C12_Witness ==
    /\ wd_report # None
    /\ PlayerIn("opening") = {}
    /\ wd_report[1].phase_breakdown["opening"].num = 0
    /\ \E j \in PlayerIn("endgame") : wd_evs[j].classification = "mistake"
    /\ \E p \in GamePhase :
          /\ 0 < wd_report[1].phase_breakdown[p].num
          /\ wd_report[1].phase_breakdown[p].num < wd_report[1].phase_breakdown[p].den

\* the empty list of evaluations
C12_WitnessEmpty ==
    /\ wd_report # None
    /\ wd_evs = <<>>
    /\ wd_report[1].overall_blunder_rate = Frac(0, 1)

----------------------------------------------------------------------------
(* SpecPatterns: _detect_patterns applied to drawn breakdowns, multipliers *)
(* and heatmaps                                                            *)

RateSamples == { Frac(0, 1), Frac(1, 10), Frac(11, 100), Frac(1, 2), Frac(1, 1) }

MultiplierSamples == { Frac(0, 1), Frac(3, 2), Frac(2, 1), Frac(201, 100), Frac(100, 1) }

\* dicts move number -> blunder count, as filled by analyze
HeatmapSamples ==
    { <<>>,
      << <<1, 2>> >>,
      << <<1, 3>> >>,
      << <<5, 1>>, <<7, 3>>, <<9, 3>> >>,
      << <<4, 2>>, <<6, 4>> >> }

RushingOf(multiplier) ==
    [blunder_rate_under_60s |-> Frac(0, 1),
     blunder_rate_over_60s |-> Frac(0, 1),
     time_trouble_multiplier |-> multiplier,
     verdict |-> Verdict(multiplier)]

InitPatterns ==
    /\ fn_in \in { Some([fn |-> "patterns", phase_breakdown |-> pb,
                         rushing |-> RushingOf(mu), heatmap |-> h]) :
                     pb \in [GamePhase -> RateSamples],
                     mu \in MultiplierSamples,
                     h \in HeatmapSamples }
    /\ fn_out = None
    /\ PipelineIdle
    /\ OracleIdle
    /\ BookIdle
    /\ WeaknessIdle
    /\ SyncIdle

ApplyDetectPatterns ==
    /\ fn_out = None
    /\ fn_in[1].fn = "patterns"
    /\ fn_out' = Some(DetectPatterns(fn_in[1].phase_breakdown, fn_in[1].rushing,
                                     fn_in[1].heatmap))
    /\ UNCHANGED <<fn_in, pvars, ovars, bvars, wvars, svars>>

NextPatterns == ApplyDetectPatterns

SpecPatterns == InitPatterns /\ [][NextPatterns]_vars

\* the kinds of the pattern strings, in the order returned
PatternKinds(ps) == [j \in 1..Len(ps) |-> ps[j].kind]

WorstPhaseHolds ==
    \E p \in GamePhase :
        10 * fn_in[1].phase_breakdown[p].num > fn_in[1].phase_breakdown[p].den

RushingHolds ==
    fn_in[1].rushing.time_trouble_multiplier.num
      > 2 * fn_in[1].rushing.time_trouble_multiplier.den

ClusterHolds ==
    \E j \in 1..Len(fn_in[1].heatmap) : fn_in[1].heatmap[j][2] >= 3

\* C13: the three pattern conditions are evaluated independently: the
\* worst-phase string appears iff the highest per-phase blunder rate exceeds
\* 0.1, the rushing string iff the multiplier exceeds 2.0, the move-cluster
\* string iff the move number with the most blunders has count >= 3; the
\* result holds exactly the strings whose condition holds, in that order
\* (0 to 3 strings).
C13_PatternsIndependent ==
    fn_out # None =>
        LET ps == fn_out[1]
            pb == fn_in[1].phase_breakdown
            h == fn_in[1].heatmap
        IN  /\ Len(ps) <= 3
            /\ PatternKinds(ps) =
                 (IF WorstPhaseHolds THEN <<"worst_phase">> ELSE <<>>)
                 \o (IF RushingHolds THEN <<"rushing">> ELSE <<>>)
                 \o (IF ClusterHolds THEN <<"cluster">> ELSE <<>>)
            /\ \A j \in 1..Len(ps) :
                  /\ ps[j].kind = "worst_phase" =>
                        /\ ps[j].rate = pb[ps[j].phase]
                        /\ \A p \in GamePhase : FracLe(pb[p], ps[j].rate)
                  /\ ps[j].kind = "rushing" =>
                        ps[j].multiplier = fn_in[1].rushing.time_trouble_multiplier
                  /\ ps[j].kind = "cluster" =>
                        \E l \in 1..Len(h) :
                            /\ h[l][1] = ps[j].move
                            /\ h[l][2] >= 3
                            /\ \A n \in 1..Len(h) : h[n][2] <= h[l][2]

\* the rushing and the cluster string without the worst-phase string, the
\* highest phase rate being exactly 0.1
C13_Witness ==
    /\ fn_out # None
    /\ PatternKinds(fn_out[1]) = <<"rushing", "cluster">>
    /\ \E p \in GamePhase : fn_in[1].phase_breakdown[p] = Frac(1, 10)

\* all three strings
C13_WitnessAll ==
    /\ fn_out # None
    /\ PatternKinds(fn_out[1]) = <<"worst_phase", "rushing", "cluster">>

\* no string, the multiplier being exactly 2 and the highest count 2
C13_WitnessNone ==
    /\ fn_out # None
    /\ fn_out[1] = <<>>
    /\ fn_in[1].rushing.time_trouble_multiplier = Frac(2, 1)
    /\ fn_in[1].heatmap = << <<1, 2>> >>

----------------------------------------------------------------------------
(* Frame of WeaknessDetector.analyze (SpecWeakness) *)

OpponentRecords == (1..Len(wd_evs)) \ PlayerRecords

\* wd_evs without the record at position j
WithoutRecord(j) == SubSeq(wd_evs, 1, j - 1) \o SubSeq(wd_evs, j + 1, Len(wd_evs))

\* wd_evs with the record at position j given the attributes of kind k
WithRecordAs(j, k) ==
    [wd_evs EXCEPT ![j] = EvDict(wd_evs[j].game_id, wd_evs[j].move_index, k)]

\* wd_evs followed by one more move of the opponent of game 1
WithOpponentRecord(k) ==
    Append(wd_evs, EvDict(1, IF wd_colors[1] = "white" THEN 7 ELSE 8, k))

AlterKinds == { k \in WdKinds : k.san \in {"e4", "Qxb7"} }

RECURSIVE SumCounts(_)
SumCounts(d) == IF d = <<>> THEN 0 ELSE Head(d)[2] + SumCounts(Tail(d))

\* C14: only the records whose side is the player's color in their game
\* (from the game-id -> color map) are counted: removing, altering or adding
\* a record of the other side leaves every field of the report unchanged;
\* the heatmap counts each player blunder once under move_index // 2 + 1, so
\* its values sum to the number of player blunders.
C14_OpponentRecordsIgnored ==
    wd_report # None =>
        LET r == wd_report[1]
            h == r.move_number_heatmap
            mine == BlunderRecords(PlayerRecords)
        IN  /\ r = Analyze(SelectSeq(wd_evs, LAMBDA ev :
                              ev.is_white = (wd_colors[ev.game_id] = "white")),
                           wd_colors)
            /\ \A j \in OpponentRecords :
                  /\ Analyze(WithoutRecord(j), wd_colors) = r
                  /\ \A k \in AlterKinds : Analyze(WithRecordAs(j, k), wd_colors) = r
            /\ wd_colors # <<>> =>
                  \A k \in AlterKinds : Analyze(WithOpponentRecord(k), wd_colors) = r
            /\ \A l \in 1..Len(h) : \A n \in 1..Len(h) : l # n => h[l][1] # h[n][1]
            /\ { h[l][1] : l \in 1..Len(h) }
                 = { (wd_evs[j].move_index \div 2) + 1 : j \in mine }
            /\ \A l \in 1..Len(h) :
                  h[l][2] = Cardinality({ j \in mine :
                                            (wd_evs[j].move_index \div 2) + 1 = h[l][1] })
            /\ SumCounts(h) = Cardinality(mine)

\* two games played with different colors, the opponent blundering in both
\* and the player blundering on move 1 of both
C14_Witness ==
    /\ wd_report # None
    /\ Len(wd_colors) >= 2
    /\ wd_colors[1] # wd_colors[2]
    /\ \E j \in OpponentRecords : wd_evs[j].classification = "blunder" /\ wd_evs[j].game_id = 1
    /\ \E j \in OpponentRecords : wd_evs[j].classification = "blunder" /\ wd_evs[j].game_id = 2
    /\ wd_report[1].move_number_heatmap = << <<1, 2>> >>

----------------------------------------------------------------------------
(* analysis/feature_extractor.py: GameFeatures and AggregatedFeatures.     *)
(* A GameFeatures object is the function from its field names to their     *)
(* values; a dict is the function from its keys (the empty dict is <<>>).  *)

RECURSIVE Gcd(_, _)
Gcd(a, b) == IF b = 0 THEN a ELSE Gcd(b, a % b)

\* the same number in lowest terms (den > 0)
Lowest(f) ==
    LET g == Gcd(IF f.num < 0 THEN -f.num ELSE f.num, f.den)
    IN  Frac(f.num \div g, f.den \div g)

FracAdd(a, b) == Lowest(Frac(a.num * b.den + b.num * a.den, a.den * b.den))

FracSub(a, b) == Lowest(Frac(a.num * b.den - b.num * a.den, a.den * b.den))

\* a / b for b > 0
FracDiv(a, b) == Lowest(Frac(a.num * b.den, a.den * b.num))

RECURSIVE FracSum(_)
FracSum(s) == IF s = <<>> THEN Frac(0, 1) ELSE FracAdd(Head(s), FracSum(Tail(s)))

\* statistics.mean of a non-empty list
FracMean(values) == FracDiv(FracSum(values), Frac(Len(values), 1))

\* the fields of GameFeatures, in declaration order
GameFeatureFields ==
    <<"avg_centipawn_loss", "acpl_opening", "acpl_middlegame", "acpl_endgame",
      "blunder_rate", "capture_rate", "check_frequency", "sacrifice_rate",
      "center_control", "piece_activity", "avg_think_time", "think_time_variance",
      "time_pressure_blunder_rate", "opening_repertoire_breadth",
      "book_deviation_move", "endgame_frequency", "game_length",
      "decisive_game_rate">>

FieldSet(names) == { names[j] : j \in 1..Len(names) }

\* GameFeatures(): every field at its declared default
DefaultGameFeatures == [f \in FieldSet(GameFeatureFields) |-> Frac(0, 1)]

\* from_games: feature_names
feature_names ==
    <<"avg_centipawn_loss", "acpl_opening", "acpl_middlegame", "acpl_endgame",
      "blunder_rate", "capture_rate", "check_frequency", "sacrifice_rate",
      "center_control", "piece_activity", "avg_think_time", "think_time_variance",
      "time_pressure_blunder_rate", "endgame_frequency", "game_length",
      "decisive_game_rate">>

\* AggregatedFeatures.from_games: the means dict of the object returned
FromGames(game_features_list) ==
    IF game_features_list = <<>> THEN <<>>
    ELSE [name \in FieldSet(feature_names) |->
            FracMean([j \in 1..Len(game_features_list) |-> game_features_list[j][name]])]

\* to_normalized_dict: ranges
ranges ==
    [avg_centipawn_loss |-> <<Frac(0, 1), Frac(200, 1)>>,
     acpl_opening |-> <<Frac(0, 1), Frac(200, 1)>>,
     acpl_middlegame |-> <<Frac(0, 1), Frac(200, 1)>>,
     acpl_endgame |-> <<Frac(0, 1), Frac(200, 1)>>,
     blunder_rate |-> <<Frac(0, 1), Frac(3, 10)>>,
     capture_rate |-> <<Frac(0, 1), Frac(1, 2)>>,
     check_frequency |-> <<Frac(0, 1), Frac(15, 100)>>,
     sacrifice_rate |-> <<Frac(0, 1), Frac(1, 10)>>,
     center_control |-> <<Frac(0, 1), Frac(4, 1)>>,
     piece_activity |-> <<Frac(0, 1), Frac(50, 1)>>,
     avg_think_time |-> <<Frac(0, 1), Frac(60, 1)>>,
     think_time_variance |-> <<Frac(0, 1), Frac(30, 1)>>,
     time_pressure_blunder_rate |-> <<Frac(0, 1), Frac(1, 2)>>,
     endgame_frequency |-> <<Frac(0, 1), Frac(1, 1)>>,
     game_length |-> <<Frac(0, 1), Frac(120, 1)>>,
     decisive_game_rate |-> <<Frac(0, 1), Frac(1, 1)>>]

\* ranges.get(name, (0, 1))
RangeOf(name) ==
    IF name \in DOMAIN ranges THEN ranges[name] ELSE <<Frac(0, 1), Frac(1, 1)>>

ClampNone(normalized) == normalized

\* max(0.0, min(1.0, normalized))
Clamp(normalized) ==
    LET capped == IF FracLt(normalized, Frac(1, 1)) THEN normalized ELSE Frac(1, 1)
    IN  IF FracLt(Frac(0, 1), capped) THEN capped ELSE Frac(0, 1)

\* AggregatedFeatures.to_normalized_dict
ToNormalizedDict(means) ==
    [name \in DOMAIN means |->
        LET min_val == RangeOf(name)[1]
            max_val == RangeOf(name)[2]
        IN  IF FracLt(min_val, max_val)
            THEN Clamp(FracDiv(FracSub(means[name], min_val), FracSub(max_val, min_val)))
            ELSE Frac(0, 1)]

----------------------------------------------------------------------------
(* SpecAggregate: from_games, then to_normalized_dict, on drawn games *)

MaxFeatureGames == 3

\* GameFeatures objects: the default one, one inside every range, one above
\* every range and one below every range
GameFeatureSamples ==
    { DefaultGameFeatures,
      [f \in FieldSet(GameFeatureFields) |->
          CASE f \in {"avg_centipawn_loss", "acpl_opening", "acpl_middlegame",
                      "acpl_endgame"} -> Frac(45, 1)
            [] f \in {"blunder_rate", "time_pressure_blunder_rate"} -> Frac(1, 10)
            [] f = "capture_rate" -> Frac(1, 4)
            [] f = "check_frequency" -> Frac(1, 20)
            [] f \in {"avg_think_time", "think_time_variance"} -> Frac(12, 1)
            [] f = "endgame_frequency" -> Frac(1, 1)
            [] f = "game_length" -> Frac(61, 1)
            [] OTHER -> Frac(0, 1)],
      [f \in FieldSet(GameFeatureFields) |->
          CASE f = "avg_centipawn_loss" -> Frac(500, 1)
            [] f \in {"blunder_rate", "capture_rate", "check_frequency",
                      "time_pressure_blunder_rate"} -> Frac(1, 1)
            [] OTHER -> Frac(300, 1)],
      [f \in FieldSet(GameFeatureFields) |-> Frac(-1, 1)] }

GameFeatureLists == UNION { [1..n -> GameFeatureSamples] : n \in 0..MaxFeatureGames }

InitAggregate ==
    /\ fn_in \in { Some([fn |-> "aggregate", game_features_list |-> l]) :
                     l \in GameFeatureLists }
    /\ fn_out = None
    /\ PipelineIdle
    /\ OracleIdle
    /\ BookIdle
    /\ WeaknessIdle
    /\ SyncIdle

\* agg = AggregatedFeatures.from_games(game_features_list)
ApplyFromGames ==
    /\ fn_out = None
    /\ fn_in[1].fn = "aggregate"
    /\ fn_out' = Some([stage |-> "aggregated",
                       means |-> FromGames(fn_in[1].game_features_list),
                       normalized |-> <<>>])
    /\ UNCHANGED <<fn_in, pvars, ovars, bvars, wvars, svars>>

\* agg.to_normalized_dict()
ApplyToNormalizedDict ==
    /\ fn_out # None
    /\ fn_in[1].fn = "aggregate"
    /\ fn_out[1].stage = "aggregated"
    /\ fn_out' = Some([fn_out[1] EXCEPT !.stage = "normalized",
                                        !.normalized = ToNormalizedDict(fn_out[1].means)])
    /\ UNCHANGED <<fn_in, pvars, ovars, bvars, wvars, svars>>

NextAggregate == ApplyFromGames \/ ApplyToNormalizedDict

SpecAggregate == InitAggregate /\ [][NextAggregate]_vars

\* C15: to_normalized_dict gives, for every aggregated field and every raw
\* mean (below, inside or above the field's range), a value in [0,1] equal to
\* clamp((mean - min) / (max - min), 0, 1) for the field's fixed (min, max):
\* avg_centipawn_loss 500 with range (0, 200) gives exactly 1, a negative
\* mean exactly 0.
C15_NormalizedClamped ==
    /\ (fn_out # None /\ fn_out[1].stage = "normalized") =>
        LET means == fn_out[1].means
            norm == fn_out[1].normalized
        IN  /\ DOMAIN norm = DOMAIN means
            /\ \A name \in DOMAIN means :
                  LET lo == ranges[name][1]
                      hi == ranges[name][2]
                      v == means[name]
                  IN  /\ norm[name].den > 0
                      /\ 0 <= norm[name].num
                      /\ norm[name].num <= norm[name].den
                      /\ FracLe(v, lo) => norm[name].num = 0
                      /\ FracLe(hi, v) => norm[name].num = norm[name].den
                      /\ (FracLt(lo, v) /\ FracLt(v, hi)) =>
                        FracEq(norm[name], FracDiv(FracSub(v, lo), FracSub(hi, lo)))
    /\ ToNormalizedDict([avg_centipawn_loss |-> Frac(500, 1)]).avg_centipawn_loss.num
         = ToNormalizedDict([avg_centipawn_loss |-> Frac(500, 1)]).avg_centipawn_loss.den
    /\ ToNormalizedDict([avg_centipawn_loss |-> Frac(-3, 2)]).avg_centipawn_loss.num = 0

\* a normalized mean strictly inside (0, 1) beside one clamped from above
\* the range, the games differing
C15_Witness ==
    /\ fn_out # None
    /\ fn_out[1].stage = "normalized"
    /\ fn_out[1].means # <<>>
    /\ FracLt(Frac(3, 10), fn_out[1].means["blunder_rate"])
    /\ fn_out[1].normalized["blunder_rate"].num = fn_out[1].normalized["blunder_rate"].den
    /\ 0 < fn_out[1].normalized["avg_centipawn_loss"].num
    /\ fn_out[1].normalized["avg_centipawn_loss"].num
         < fn_out[1].normalized["avg_centipawn_loss"].den

\* means below the range minimum, normalized to 0
C15_WitnessBelow ==
    /\ fn_out # None
    /\ fn_out[1].stage = "normalized"
    /\ fn_out[1].means # <<>>
    /\ fn_out[1].means["blunder_rate"].num < 0
    /\ fn_out[1].normalized["blunder_rate"].num = 0

\* C16: from_games on an empty set of GameFeatures gives, without raising, a
\* mean of 0.0 for each named field (the shape of the result for a non-empty
\* set), and the normalized projection then holds a value for each of them.
C16_EmptySetZeroMeans ==
    (fn_out # None /\ fn_in[1].game_features_list = <<>>) =>
        /\ DOMAIN fn_out[1].means = FieldSet(feature_names)
        /\ \A name \in DOMAIN fn_out[1].means : fn_out[1].means[name].num = 0
        /\ fn_out[1].stage = "normalized" =>
              DOMAIN fn_out[1].normalized = FieldSet(feature_names)

----------------------------------------------------------------------------
(* services/playstyle_classifier.py: PlaystyleClassifier.  Weights are in  *)
(* hundredths; a dict read in insertion order is the list of its pairs.    *)

ARCHETYPES ==
    << [name |-> "The Attacker",
        description |-> "Aggressive player who seeks initiative through captures, checks, and sacrifices",
        weights |-> << <<"capture_rate", 30>>, <<"check_frequency", 20>>,
                       <<"sacrifice_rate", 20>>, <<"avg_think_time", -15>>,
                       <<"decisive_game_rate", 15>> >>],
       [name |-> "The Defender",
        description |-> "Solid player who prioritizes safety and accuracy over aggression",
        weights |-> << <<"avg_centipawn_loss", -35>>, <<"blunder_rate", -30>>,
                       <<"capture_rate", -15>>, <<"decisive_game_rate", -20>> >>],
       [name |-> "The Positional Player",
        description |-> "Strategic player who builds advantages through center control and piece placement",
        weights |-> << <<"center_control", 30>>, <<"piece_activity", 25>>,
                       <<"endgame_frequency", 20>>, <<"avg_centipawn_loss", -25>> >>],
       [name |-> "The Speedster",
        description |-> "Fast, intuitive player who relies on pattern recognition but may rush",
        weights |-> << <<"avg_think_time", -35>>, <<"think_time_variance", -20>>,
                       <<"time_pressure_blunder_rate", 25>>, <<"blunder_rate", 20>> >>],
       [name |-> "The Improviser",
        description |-> "Creative player with wide opening repertoire but inconsistent results",
        weights |-> << <<"think_time_variance", 30>>, <<"sacrifice_rate", 25>>,
                       <<"capture_rate", 20>>, <<"avg_centipawn_loss", 15>> >>],
       [name |-> "The Grinder",
        description |-> "Patient player who wins through endgame technique and attrition",
        weights |-> << <<"game_length", 30>>, <<"endgame_frequency", 30>>,
                       <<"acpl_endgame", -20>>, <<"decisive_game_rate", 20>> >>] >>

\* features.get(feat, 0.5)
FeatValue(features, feat) ==
    IF feat \in DOMAIN features THEN features[feat] ELSE Frac(1, 2)

FracMul(a, b) == Lowest(Frac(a.num * b.num, a.den * b.den))

ScoreTermSigned(weight, feat_value) == FracMul(Frac(weight, 100), feat_value)

\* lines 107-110: what one weight adds to the score
ScoreTerm(weight, feat_value) ==
    IF weight < 0
    THEN FracMul(Frac(-weight, 100), FracSub(Frac(1, 1), feat_value))
    ELSE FracMul(Frac(weight, 100), feat_value)

\* lines 104-110
RECURSIVE Score(_, _)
Score(weights, features) ==
    IF weights = <<>> THEN Frac(0, 1)
    ELSE FracAdd(Score(SubSeq(weights, 1, Len(weights) - 1), features),
                 ScoreTerm(weights[Len(weights)][2],
                           FeatValue(features, weights[Len(weights)][1])))

\* lines 102-111: the scores dict
Scores(features) ==
    [j \in 1..Len(ARCHETYPES) |->
        <<ARCHETYPES[j].name, Score(ARCHETYPES[j].weights, features)>>]

PercentagesNonZero(scores) ==
    LET total == FracSum([j \in 1..Len(scores) |-> scores[j][2]])
        minus(f) == Frac(-f.num, f.den)
    IN  IF total.num > 0
        THEN [j \in 1..Len(scores) |->
                <<scores[j][1], FracMul(FracDiv(scores[j][2], total), Frac(100, 1))>>]
        ELSE IF total.num < 0
        THEN [j \in 1..Len(scores) |->
                <<scores[j][1],
                  FracMul(FracDiv(minus(scores[j][2]), minus(total)), Frac(100, 1))>>]
        ELSE [j \in 1..Len(scores) |-> <<scores[j][1], Frac(100, Len(scores))>>]

\* lines 113-117
Percentages(scores) ==
    LET total == FracSum([j \in 1..Len(scores) |-> scores[j][2]])
    IN  IF FracLt(Frac(0, 1), total)
        THEN [j \in 1..Len(scores) |->
                <<scores[j][1], FracMul(FracDiv(scores[j][2], total), Frac(100, 1))>>]
        ELSE [j \in 1..Len(scores) |-> <<scores[j][1], Frac(100, Len(scores))>>]

InsertByScoreTiesFirst(sorted, x) ==
    LET keep == Len(SelectSeq(sorted, LAMBDA y : FracLt(x[2], y[2])))
    IN  SubSeq(sorted, 1, keep) \o <<x>> \o SubSeq(sorted, keep + 1, Len(sorted))

\* the place of x in a list sorted so far: behind everything that does not
\* score lower (the sort is stable, also with reverse=True)
InsertByScore(sorted, x) ==
    LET keep == Len(SelectSeq(sorted, LAMBDA y : FracLe(x[2], y[2])))
    IN  SubSeq(sorted, 1, keep) \o <<x>> \o SubSeq(sorted, keep + 1, Len(sorted))

\* line 119: sorted(scores, key=scores.get, reverse=True)
RECURSIVE SortedArchetypes(_)
SortedArchetypes(scores) ==
    IF scores = <<>> THEN <<>>
    ELSE LET rest == SortedArchetypes(SubSeq(scores, 1, Len(scores) - 1))
             placed == InsertByScore(rest, scores[Len(scores)])
         IN  placed

\* _build_radar._avg
RadarAvg(features, keys) ==
    FracMul(FracDiv(FracSum([j \in 1..Len(keys) |-> FeatValue(features, keys[j])]),
                    Frac(Len(keys), 1)),
            Frac(100, 1))

\* lines 133-170
BuildRadar(features) ==
    << [label |-> "Aggression",
        value |-> RadarAvg(features, <<"capture_rate", "check_frequency", "sacrifice_rate">>)],
       [label |-> "Accuracy",
        value |-> FracMul(FracSub(Frac(1, 1), FeatValue(features, "avg_centipawn_loss")),
                          Frac(100, 1))],
       [label |-> "Positional",
        value |-> RadarAvg(features, <<"center_control", "piece_activity">>)],
       [label |-> "Endgame",
        value |-> RadarAvg(features, <<"endgame_frequency", "acpl_endgame">>)],
       [label |-> "Speed",
        value |-> FracMul(FracSub(Frac(1, 1), FeatValue(features, "avg_think_time")),
                          Frac(100, 1))],
       [label |-> "Creativity",
        value |-> RadarAvg(features, <<"sacrifice_rate", "think_time_variance">>)] >>

DescriptionOf(name) ==
    ARCHETYPES[CHOOSE j \in 1..Len(ARCHETYPES) : ARCHETYPES[j].name = name].description

\* lines 92-131
PlaystyleClassify(normalized_features) ==
    LET scores == Scores(normalized_features)
        sorted_archetypes == SortedArchetypes(scores)
        primary == sorted_archetypes[1][1]
        secondary == sorted_archetypes[2][1]
    IN  [primary_archetype |-> primary,
         secondary_archetype |-> secondary,
         archetype_scores |-> Percentages(scores),
         radar_chart |-> BuildRadar(normalized_features),
         description |-> DescriptionOf(primary)]

----------------------------------------------------------------------------
(* SpecPlaystyle: classify applied to drawn normalized feature mappings *)

\* the features drawn one by one; each is absent or 0, 1/4 or 1
DriverFeatures ==
    {"capture_rate", "avg_centipawn_loss", "avg_think_time", "endgame_frequency",
     "think_time_variance", "decisive_game_rate"}

OtherFeatures ==
    {"check_frequency", "sacrifice_rate", "blunder_rate", "center_control",
     "piece_activity", "time_pressure_blunder_rate", "game_length", "acpl_endgame"}

ValueSamples == { Frac(0, 1), Frac(1, 4), Frac(1, 1) }

\* normalized_features: some features missing, the others in [0,1]
FeatureMaps ==
    { [f \in { g \in DriverFeatures : d[g] # None } \cup others |->
          IF f \in DriverFeatures THEN d[f][1] ELSE Frac(1, 4)] :
        d \in [DriverFeatures -> {None} \cup { Some(v) : v \in ValueSamples }],
        others \in { {}, OtherFeatures } }

InitPlaystyle ==
    /\ fn_in \in { Some([fn |-> "playstyle", normalized_features |-> nf]) :
                     nf \in FeatureMaps }
    /\ fn_out = None
    /\ PipelineIdle
    /\ OracleIdle
    /\ BookIdle
    /\ WeaknessIdle
    /\ SyncIdle

ApplyPlaystyleClassify ==
    /\ fn_out = None
    /\ fn_in[1].fn = "playstyle"
    /\ fn_out' = Some(PlaystyleClassify(fn_in[1].normalized_features))
    /\ UNCHANGED <<fn_in, pvars, ovars, bvars, wvars, svars>>

NextPlaystyle == ApplyPlaystyleClassify

SpecPlaystyle == InitPlaystyle /\ [][NextPlaystyle]_vars

\* the score of the j-th archetype of the table for the drawn mapping:
\* weight * value for a weight >= 0, |weight| * (1 - value) for a weight < 0
ExpectedScore(j) ==
    LET ws == ARCHETYPES[j].weights
        nf == fn_in[1].normalized_features
    IN  FracSum([l \in 1..Len(ws) |->
            LET v == IF ws[l][1] \in DOMAIN nf THEN nf[ws[l][1]] ELSE [num |-> 1, den |-> 2]
            IN  IF ws[l][2] >= 0
                THEN Lowest([num |-> ws[l][2] * v.num, den |-> 100 * v.den])
                ELSE Lowest([num |-> (-ws[l][2]) * (v.den - v.num), den |-> 100 * v.den])])

ExpectedTotal == FracSum([j \in 1..6 |-> ExpectedScore(j)])

\* C17: for a mapping with values in [0,1] (missing features 0.5) every
\* archetype score is the sum of weight*value (weight >= 0) or
\* |weight|*(1-value) (weight < 0); nothing divides by zero; when the total
\* is > 0 the percentages are 100*score/total, non-negative, and sum to 100;
\* when all scores are 0 every archetype gets 100/6.
C17_ArchetypePercentages ==
    /\ fn_out # None =>
        LET pct == fn_out[1].archetype_scores
            total == ExpectedTotal
        IN  /\ Len(pct) = 6
            /\ \A j \in 1..6 :
                  /\ pct[j][1] = ARCHETYPES[j].name
                  /\ pct[j][2].den > 0
                  /\ pct[j][2].num >= 0
                  /\ ExpectedScore(j).num >= 0
                  /\ total.num > 0 =>
                        FracEq(FracMul(pct[j][2], total),
                               FracMul(Frac(100, 1), ExpectedScore(j)))
                  /\ total.num = 0 => FracEq(pct[j][2], Frac(100, 6))
            /\ total.num > 0 =>
                  FracEq(FracSum([j \in 1..6 |-> pct[j][2]]), Frac(100, 1))
    /\ \A j \in 1..6 :
          FracEq(Percentages([l \in 1..6 |-> <<ARCHETYPES[l].name, Frac(0, 1)>>])[j][2],
                 Frac(100, 6))

\* a mapping with missing features and an inverted feature at 0: the
\* archetypes get different percentages
C17_Witness ==
    /\ fn_out # None
    /\ DOMAIN fn_in[1].normalized_features = {"avg_think_time", "capture_rate"}
    /\ fn_in[1].normalized_features["avg_think_time"] = Frac(0, 1)
    /\ FracLt(Frac(100, 6), fn_out[1].archetype_scores[1][2])
    /\ FracLt(fn_out[1].archetype_scores[5][2], Frac(100, 6))

ArchetypeIndex(name) == CHOOSE j \in 1..6 : ARCHETYPES[j].name = name

\* C18: primary is the archetype with the highest score, secondary the one
\* with the second highest, the two distinct; of archetypes with equal
\* scores the one earlier in the table ranks first; the description is the
\* primary archetype's.
C18_PrimarySecondary ==
    fn_out # None =>
        LET p == ArchetypeIndex(fn_out[1].primary_archetype)
            q == ArchetypeIndex(fn_out[1].secondary_archetype)
        IN  /\ fn_out[1].primary_archetype \in { ARCHETYPES[j].name : j \in 1..6 }
            /\ fn_out[1].secondary_archetype \in { ARCHETYPES[j].name : j \in 1..6 }
            /\ p # q
            /\ \A j \in 1..6 :
                  /\ FracLe(ExpectedScore(j), ExpectedScore(p))
                  /\ FracEq(ExpectedScore(j), ExpectedScore(p)) => p <= j
                  /\ j # p =>
                        /\ FracLe(ExpectedScore(j), ExpectedScore(q))
                        /\ FracEq(ExpectedScore(j), ExpectedScore(q)) => q <= j
            /\ fn_out[1].description = ARCHETYPES[p].description

\* a tie for the first place between archetypes later in the table, the
\* earlier of them primary and the later secondary
C18_Witness ==
    /\ fn_out # None
    /\ ArchetypeIndex(fn_out[1].primary_archetype) > 1
    /\ FracEq(ExpectedScore(ArchetypeIndex(fn_out[1].primary_archetype)),
              ExpectedScore(ArchetypeIndex(fn_out[1].secondary_archetype)))
    /\ ArchetypeIndex(fn_out[1].primary_archetype)
         < ArchetypeIndex(fn_out[1].secondary_archetype)

\* no feature given: five archetypes tie, the first two of the table win
C18_WitnessAllMissing ==
    /\ fn_out # None
    /\ fn_in[1].normalized_features = <<>>
    /\ fn_out[1].primary_archetype = "The Attacker"
    /\ fn_out[1].secondary_archetype = "The Defender"

----------------------------------------------------------------------------
(* analysis/feature_extractor.py: FeatureExtractor.extract.                *)
(* think_time_variance, a standard deviation, is kept as its square (the   *)
(* sample variance): the root of a rational need not be rational.          *)

\* the characters of a SAN string that extract looks for
SanSymbols(san) ==
    CASE san = "Qxb7" -> {"x"}
      [] san = "Rxd5+" -> {"x", "+"}
      [] san = "Qh7#" -> {"#"}
      [] OTHER -> {}

FxIsBlunderStrict(classification) == classification = "blunder"

\* lines 105, 121
FxIsBlunder(classification) == classification \in {"blunder", "mistake"}

\* lines 77-89
FxEmpty ==
    [player_losses |-> <<>>,
     phase_losses |-> [p \in GamePhase |-> <<>>],
     think_times |-> <<>>,
     captures |-> 0,
     checks |-> 0,
     blunders |-> 0,
     player_moves |-> 0,
     time_pressure_moves |-> 0,
     time_pressure_blunders |-> 0]

\* lines 91-122: the loop body for one record
FxStep(acc, ev, is_player_white) ==
    LET cp_loss == ev.centipawn_loss
        phase == ev.game_phase
        blunder == FxIsBlunder(ev.classification)
        clock == ev.clock_seconds
        pressed == clock # None /\ clock[1] < 60
    IN  IF ev.is_white # is_player_white THEN acc
        ELSE [player_losses |-> Append(acc.player_losses, cp_loss),
              phase_losses |->
                  IF phase \in DOMAIN acc.phase_losses
                  THEN [acc.phase_losses EXCEPT ![phase] = Append(@, cp_loss)]
                  ELSE acc.phase_losses,
              think_times |->
                  IF clock # None THEN Append(acc.think_times, clock[1])
                  ELSE acc.think_times,
              captures |-> acc.captures + (IF "x" \in SanSymbols(ev.san) THEN 1 ELSE 0),
              checks |-> acc.checks
                           + (IF "+" \in SanSymbols(ev.san) \/ "#" \in SanSymbols(ev.san)
                              THEN 1 ELSE 0),
              blunders |-> acc.blunders + (IF blunder THEN 1 ELSE 0),
              player_moves |-> acc.player_moves + 1,
              time_pressure_moves |-> acc.time_pressure_moves + (IF pressed THEN 1 ELSE 0),
              time_pressure_blunders |->
                  acc.time_pressure_blunders + (IF pressed /\ blunder THEN 1 ELSE 0)]

RECURSIVE FxLoop(_, _, _)
FxLoop(acc, evs, is_player_white) ==
    IF evs = <<>> THEN acc
    ELSE FxLoop(FxStep(acc, Head(evs), is_player_white), Tail(evs), is_player_white)

\* mean(lst) if lst else 0
MeanOrZero(lst) ==
    IF lst = <<>> THEN Frac(0, 1)
    ELSE FracMean([j \in 1..Len(lst) |-> Frac(lst[j], 1)])

\* lines 144-148: the positive differences of successive clock readings
RECURSIVE Deltas(_)
Deltas(think_times) ==
    IF Len(think_times) < 2 THEN <<>>
    ELSE LET before == Deltas(SubSeq(think_times, 1, Len(think_times) - 1))
             delta == think_times[Len(think_times) - 1] - think_times[Len(think_times)]
         IN  IF delta > 0 THEN Append(before, delta) ELSE before

\* statistics.stdev(deltas) squared, for at least two deltas
SampleVariance(deltas) ==
    LET m == MeanOrZero(deltas)
        sq == [j \in 1..Len(deltas) |->
                 FracMul(FracSub(Frac(deltas[j], 1), m), FracSub(Frac(deltas[j], 1), m))]
    IN  FracDiv(FracSum(sq), Frac(Len(deltas) - 1, 1))

\* lines 56-157
Extract(move_evaluations, subject_color, total_moves) ==
    LET is_player_white == subject_color = "white"
        features == [DefaultGameFeatures EXCEPT !["game_length"] = Frac(total_moves, 1)]
        acc == FxLoop(FxEmpty, move_evaluations, is_player_white)
        deltas == Deltas(acc.think_times)
    IN  IF acc.player_moves = 0 THEN features
        ELSE [features EXCEPT
                !["avg_centipawn_loss"] = MeanOrZero(acc.player_losses),
                !["acpl_opening"] = MeanOrZero(acc.phase_losses["opening"]),
                !["acpl_middlegame"] = MeanOrZero(acc.phase_losses["middlegame"]),
                !["acpl_endgame"] = MeanOrZero(acc.phase_losses["endgame"]),
                !["blunder_rate"] = Lowest(Frac(acc.blunders, acc.player_moves)),
                !["capture_rate"] = Lowest(Frac(acc.captures, acc.player_moves)),
                !["check_frequency"] = Lowest(Frac(acc.checks, acc.player_moves)),
                !["endgame_frequency"] =
                    IF acc.phase_losses["endgame"] # <<>> THEN Frac(1, 1) ELSE Frac(0, 1),
                !["avg_think_time"] =
                    IF deltas # <<>> THEN MeanOrZero(deltas) ELSE Frac(0, 1),
                !["think_time_variance"] =
                    IF Len(deltas) > 1 THEN SampleVariance(deltas) ELSE Frac(0, 1),
                !["time_pressure_blunder_rate"] =
                    Lowest(Frac(acc.time_pressure_blunders, Max(1, acc.time_pressure_moves)))]

----------------------------------------------------------------------------
(* SpecExtract: extract applied to the stored evaluations of a game *)

MaxFxEvals == 5

FxKinds ==
    { [san |-> "e4", centipawn_loss |-> 0, classification |-> "good",
       game_phase |-> "opening", clock_seconds |-> None],
      [san |-> "Rxd5+", centipawn_loss |-> 80, classification |-> "mistake",
       game_phase |-> "middlegame", clock_seconds |-> Some(60)],
      [san |-> "Qxb7", centipawn_loss |-> 300, classification |-> "blunder",
       game_phase |-> "middlegame", clock_seconds |-> Some(45)],
      [san |-> "Qh7#", centipawn_loss |-> 0, classification |-> "good",
       game_phase |-> "endgame", clock_seconds |-> Some(20)] }

FxLists ==
    UNION { { [j \in 1..n |-> EvDict(1, j - 1, ks[j])] : ks \in [1..n -> FxKinds] }
            : n \in 0..MaxFxEvals }

TotalMovesSamples == {0, 40}

InitExtract ==
    /\ fn_in \in { Some([fn |-> "extract", move_evaluations |-> evs,
                         player_color |-> c, total_moves |-> t]) :
                     evs \in FxLists, c \in Colors, t \in TotalMovesSamples }
    /\ fn_out = None
    /\ PipelineIdle
    /\ OracleIdle
    /\ BookIdle
    /\ WeaknessIdle
    /\ SyncIdle

ApplyExtract ==
    /\ fn_out = None
    /\ fn_in[1].fn = "extract"
    /\ fn_out' = Some(Extract(fn_in[1].move_evaluations, fn_in[1].player_color,
                              fn_in[1].total_moves))
    /\ UNCHANGED <<fn_in, pvars, ovars, bvars, wvars, svars>>

NextExtract == ApplyExtract

SpecExtract == InitExtract /\ [][NextExtract]_vars

\* the positions of the subject player's records in the drawn list
FxMine ==
    { j \in 1..Len(fn_in[1].move_evaluations) :
        fn_in[1].move_evaluations[j].is_white = (fn_in[1].player_color = "white") }

\* C19: extract returns the default GameFeatures (each of the 18 fields at
\* its declared default) whenever the list holds no move of the subject
\* player (empty, or the opponent's moves only), whatever total_moves is.
C19_NoPlayerMovesDefault ==
    (fn_out # None /\ FxMine = {}) =>
        /\ DOMAIN fn_out[1] = FieldSet(GameFeatureFields)
        /\ \A f \in DOMAIN fn_out[1] : fn_out[1][f] = Frac(0, 1)

FxCount(js) == IF js = {} THEN 1 ELSE Cardinality(js)

FxBad(js) ==
    { j \in js : fn_in[1].move_evaluations[j].classification \in {"blunder", "mistake"} }

FxPressed ==
    { j \in FxMine :
        /\ fn_in[1].move_evaluations[j].clock_seconds # None
        /\ fn_in[1].move_evaluations[j].clock_seconds[1] < 60 }

InUnit(f) == f.den > 0 /\ 0 <= f.num /\ f.num <= f.den

\* C20: for every list of move evaluations and either player color the rate
\* fields of extract lie in [0,1]: blunder_rate ((blunder + mistake count) /
\* player moves), capture_rate, check_frequency, time_pressure_blunder_rate
\* (blunders and mistakes with clock < 60 over max(1, player moves with
\* clock < 60)) and endgame_frequency.
C20_RatesInUnitInterval ==
    fn_out # None =>
        LET g == fn_out[1]
            evs == fn_in[1].move_evaluations
        IN  /\ InUnit(g["blunder_rate"])
            /\ InUnit(g["capture_rate"])
            /\ InUnit(g["check_frequency"])
            /\ InUnit(g["time_pressure_blunder_rate"])
            /\ InUnit(g["endgame_frequency"])
            /\ g["blunder_rate"].num * FxCount(FxMine)
                 = Cardinality(FxBad(FxMine)) * g["blunder_rate"].den
            /\ g["time_pressure_blunder_rate"].num * FxCount(FxPressed)
                 = Cardinality(FxBad(FxPressed)) * g["time_pressure_blunder_rate"].den
            /\ g["capture_rate"].num * FxCount(FxMine)
                 = Cardinality({ j \in FxMine : evs[j].san \in {"Qxb7", "Rxd5+"} })
                     * g["capture_rate"].den
            /\ g["check_frequency"].num * FxCount(FxMine)
                 = Cardinality({ j \in FxMine : evs[j].san \in {"Rxd5+", "Qh7#"} })
                     * g["check_frequency"].den
            /\ g["endgame_frequency"] =
                 (IF \E j \in FxMine : evs[j].game_phase = "endgame"
                  THEN Frac(1, 1) ELSE Frac(0, 1))

\* three moves of the player, a mistake at clock 60 and a blunder and a good
\* move under 60 seconds: rates strictly inside (0, 1)
C20_Witness ==
    /\ fn_out # None
    /\ Cardinality(FxMine) = 3
    /\ fn_out[1]["blunder_rate"] = Frac(2, 3)
    /\ fn_out[1]["time_pressure_blunder_rate"] = Frac(1, 2)
    /\ fn_out[1]["check_frequency"] = Frac(2, 3)
    /\ fn_out[1]["endgame_frequency"] = Frac(1, 1)
    /\ fn_out[1]["think_time_variance"].num > 0

\* the records of either side that the stored evaluations put in the endgame
FxEndgame ==
    { j \in 1..Len(fn_in[1].move_evaluations) :
        fn_in[1].move_evaluations[j].game_phase = "endgame" }

\* C21: extract sets endgame_frequency to 1.0 if the game had any move
\* classified as endgame phase, whichever side made it, and to 0.0
\* otherwise; it is never strictly between 0 and 1.
C21_EndgameFrequencyAnySide ==
    fn_out # None =>
        fn_out[1]["endgame_frequency"] =
            (IF FxEndgame # {} THEN Frac(1, 1) ELSE Frac(0, 1))

----------------------------------------------------------------------------
(* OpeningAnalyzer.analyze_repertoire (services/opening_analyzer.py).
   opening_stats is a dict read in insertion order: a sequence of
   <<key, OpeningStats>> pairs. *)

\* dataclass OpeningStats, a fresh group
OpeningStats(eco, name) ==
    [eco |-> eco, name |-> name, games_played |-> 0, wins |-> 0, draws |-> 0,
     losses |-> 0, deviations |-> <<>>]

\* property win_rate
WinRate(o) == Lowest(Frac(o.wins, Max(1, o.games_played)))

\* line 106
OpeningKey(eco, name) == IF eco # "" THEN eco \o ":" \o name ELSE name

CountResultDrawOnly(o, player_result) ==
    IF player_result = "win" THEN [o EXCEPT !.wins = @ + 1]
    ELSE IF player_result = "loss" THEN [o EXCEPT !.losses = @ + 1]
    ELSE IF player_result = "draw" THEN [o EXCEPT !.draws = @ + 1]
    ELSE o

\* lines 115-121
CountResult(o, player_result) ==
    IF player_result = "win" THEN [o EXCEPT !.wins = @ + 1]
    ELSE IF player_result = "loss" THEN [o EXCEPT !.losses = @ + 1]
    ELSE [o EXCEPT !.draws = @ + 1]

\* lines 104-121: the loop body for one game
RepStep(opening_stats, game) ==
    LET key == OpeningKey(game.eco, game.opening_name)
        known == \E j \in 1..Len(opening_stats) : opening_stats[j][1] = key
        groups == IF known THEN opening_stats
                  ELSE Append(opening_stats,
                              <<key, OpeningStats(game.eco, game.opening_name)>>)
    IN  [j \in 1..Len(groups) |->
           IF groups[j][1] = key
           THEN <<key, CountResult([groups[j][2] EXCEPT !.games_played = @ + 1],
                                   game.player_result)>>
           ELSE groups[j]]

RECURSIVE RepLoop(_, _)
RepLoop(opening_stats, games) ==
    IF games = <<>> THEN opening_stats
    ELSE RepLoop(RepStep(opening_stats, Head(games)), Tail(games))

\* one step of the stable sort by games_played, reverse=True: o goes behind
\* every group that has at least as many games
InsertByGamesPlayed(sorted, o) ==
    LET ahead == Cardinality({ j \in 1..Len(sorted) :
                                 sorted[j].games_played >= o.games_played })
    IN  SubSeq(sorted, 1, ahead) \o <<o>> \o SubSeq(sorted, ahead + 1, Len(sorted))

\* lines 123-125
RECURSIVE SortByGamesPlayed(_)
SortByGamesPlayed(values) ==
    IF values = <<>> THEN <<>>
    ELSE InsertByGamesPlayed(SortByGamesPlayed(SubSeq(values, 1, Len(values) - 1)),
                             values[Len(values)])

\* max(lst, key=win_rate): the first of the largest, lst not empty
MaxByWinRate(lst) ==
    lst[CHOOSE j \in 1..Len(lst) :
          /\ \A k \in 1..Len(lst) : FracLe(WinRate(lst[k]), WinRate(lst[j]))
          /\ \A k \in 1..(j - 1) : FracLt(WinRate(lst[k]), WinRate(lst[j]))]

\* min(lst, key=win_rate): the first of the smallest, lst not empty
MinByWinRate(lst) ==
    lst[CHOOSE j \in 1..Len(lst) :
          /\ \A k \in 1..Len(lst) : FracLe(WinRate(lst[j]), WinRate(lst[k]))
          /\ \A k \in 1..(j - 1) : FracLt(WinRate(lst[j]), WinRate(lst[k]))]

QualifiesAtTwo(o) == o.games_played >= 2

\* line 132
Qualifies(o) == o.games_played >= 3

WorstDefaultFirst(openings_list) ==
    IF openings_list # <<>> THEN Some(openings_list[1]) ELSE None

\* line 134
WorstDefault(openings_list) ==
    IF openings_list # <<>> THEN Some(openings_list[Len(openings_list)]) ELSE None

\* lines 131-135
WorstPerforming(openings_list) ==
    LET candidates == SelectSeq(openings_list, Qualifies)
    IN  IF candidates # <<>> THEN Some(MinByWinRate(candidates))
        ELSE WorstDefault(openings_list)

\* lines 88-149; total_deviations stays 0
AnalyzeRepertoire(games) ==
    LET opening_stats == RepLoop(<<>>, games)
        total_deviations == 0
        total_games == Len(games)
        openings_list ==
            SortByGamesPlayed([j \in 1..Len(opening_stats) |-> opening_stats[j][2]])
        worst_performing == WorstPerforming(openings_list)
    IN  [openings |-> openings_list,
         most_played |-> IF openings_list # <<>> THEN openings_list[1].name ELSE "None",
         best_performing |->
             IF openings_list # <<>> THEN MaxByWinRate(openings_list).name ELSE "None",
         worst_performing |->
             IF worst_performing # None THEN worst_performing[1].name ELSE "None",
         repertoire_breadth |-> Len(opening_stats),
         book_adherence_rate |->
             FracSub(Frac(1, 1), Lowest(Frac(total_deviations, Max(1, total_games))))]

----------------------------------------------------------------------------
(* SpecRepertoire: analyze_repertoire applied to the stored games of a player *)

MaxRepGames == 5

\* the game dicts api/openings.py builds: two named openings with each result,
\* and games without ECO code or opening name, won or with a result label
\* that is neither win, loss nor draw
RepKinds ==
    { [eco |-> o[1], opening_name |-> o[2], player_result |-> r] :
        o \in {<<"B20", "Sicilian Defense">>, <<"C50", "Italian Game">>},
        r \in {"win", "loss", "draw"} }
    \cup { [eco |-> "", opening_name |-> "Unknown", player_result |-> r] :
             r \in {"win", "aborted"} }

RepGames(longest) == UNION { [1..n -> RepKinds] : n \in 0..longest }

InitRepertoire ==
    /\ fn_in \in { Some([fn |-> "repertoire", games |-> gs]) : gs \in RepGames(MaxRepGames) }
    /\ fn_out = None
    /\ PipelineIdle
    /\ OracleIdle
    /\ BookIdle
    /\ WeaknessIdle
    /\ SyncIdle

ApplyAnalyzeRepertoire ==
    /\ fn_out = None
    /\ fn_in[1].fn = "repertoire"
    /\ fn_out' = Some(AnalyzeRepertoire(fn_in[1].games))
    /\ UNCHANGED <<fn_in, pvars, ovars, bvars, wvars, svars>>

NextRepertoire == ApplyAnalyzeRepertoire

SpecRepertoire == InitRepertoire /\ [][NextRepertoire]_vars

\* the drawn games, the opening names among them and per-name counts
RepIn == fn_in[1].games

RepNames == { RepIn[j].opening_name : j \in 1..Len(RepIn) }

RepOf(n) == { j \in 1..Len(RepIn) : RepIn[j].opening_name = n }

RepPlayed(n) == Cardinality(RepOf(n))

RepWon(n) == Cardinality({ j \in RepOf(n) : RepIn[j].player_result = "win" })

\* the position of the first game of opening n
RepFirst(n) == CHOOSE j \in RepOf(n) : \A k \in RepOf(n) : j <= k

\* opening a has a strictly lower win rate than opening b
RepLower(a, b) == RepWon(a) * RepPlayed(b) < RepWon(b) * RepPlayed(a)

\* the openings with at least three games
RepBig == { n \in RepNames : RepPlayed(n) >= 3 }

\* C22 as stated: worst_performing is never an opening with fewer than 3
\* games when some opening has at least 3 (it is then the lowest-win-rate
\* opening among those), and when no opening has 3 games it is the
\* lowest-win-rate opening regardless of sample size.
C22_WorstLowestWinRate ==
    (fn_out # None /\ RepNames # {}) =>
        LET pool == IF RepBig # {} THEN RepBig ELSE RepNames
            worst == fn_out[1].worst_performing
        IN  /\ worst \in pool
            /\ \A n \in pool : ~RepLower(n, worst)

\* C22 amended: worst_performing is never an opening with fewer than 3
\* games when some opening has at least 3 (it is then the lowest-win-rate
\* opening among those); when no opening has 3 games it is an opening with
\* the fewest games played, whatever its win rate.
C22_WorstSampleFilter ==
    (fn_out # None /\ RepNames # {}) =>
        LET worst == fn_out[1].worst_performing
        IN  IF RepBig # {}
            THEN /\ worst \in RepBig
                 /\ \A n \in RepBig : ~RepLower(n, worst)
            ELSE /\ worst \in RepNames
                 /\ \A n \in RepNames : RepPlayed(worst) <= RepPlayed(n)

\* an opening with fewer than 3 games has a lower win rate than the reported
\* worst one, which has at least 3
C22_Witness ==
    /\ fn_out # None
    /\ fn_out[1].worst_performing \in RepBig
    /\ \E n \in RepNames \ RepBig : RepLower(n, fn_out[1].worst_performing)

\* no opening has 3 games and the reported worst one has a higher win rate
\* than another
C22_WitnessFallback ==
    /\ fn_out # None
    /\ RepBig = {}
    /\ \E n \in RepNames : RepLower(n, fn_out[1].worst_performing)

\* C23: when no opening group has games_played >= 3, worst_performing is
\* the lowest-count group (fewest games played; of several such groups the
\* one encountered last), and it is "None" only when there are no games.
C23_WorstFallbackLowestCount ==
    fn_out # None =>
        LET worst == fn_out[1].worst_performing
        IN  /\ (worst = "None") <=> (RepIn = <<>>)
            /\ (RepBig = {} /\ RepIn # <<>>) =>
                  /\ worst \in RepNames
                  /\ \A n \in RepNames \ {worst} :
                        \/ RepPlayed(worst) < RepPlayed(n)
                        \/ /\ RepPlayed(worst) = RepPlayed(n)
                           /\ RepFirst(n) < RepFirst(worst)

\* three openings without 3 games each, the reported worst one has strictly
\* the fewest games and was encountered first
C23_Witness ==
    /\ fn_out # None
    /\ RepBig = {}
    /\ Cardinality(RepNames) = 3
    /\ \A n \in RepNames \ {fn_out[1].worst_performing} :
          /\ RepPlayed(fn_out[1].worst_performing) < RepPlayed(n)
          /\ RepFirst(fn_out[1].worst_performing) < RepFirst(n)

\* no games at all
C23_WitnessNone ==
    /\ fn_out # None
    /\ RepIn = <<>>
    /\ fn_out[1].worst_performing = "None"
    /\ fn_out[1].repertoire_breadth = 0

\* C24: best_performing is the opening group with the highest win_rate,
\* with no minimum-sample filter, and when several groups share the highest
\* win_rate the one first encountered in the input game list is chosen,
\* whatever their games_played.
C24_BestFirstEncountered ==
    (fn_out # None /\ RepIn # <<>>) =>
        LET best == fn_out[1].best_performing
        IN  /\ best \in RepNames
            /\ \A n \in RepNames : ~RepLower(best, n)
            /\ \A n \in RepNames \ {best} :
                  RepLower(n, best) \/ RepFirst(best) < RepFirst(n)

\* the plies below p at which the subject player moves
BkPlayerPlies(p) == { q \in 0..(p - 1) : (q % 2 = 0) = (bk_color = "white") }

\* the plies for which the explorer has been queried
BkQueried == { oracle_log[j].ply : j \in 1..Len(oracle_log) }

\* the played move is missing from a non-empty table
BkMissing(t, uci) == t # <<>> /\ \A j \in 1..Len(t) : t[j].uci # uci

C25_State ==
    /\ Len(oracle_log) <= 20
    /\ \A j \in 1..Len(oracle_log) :
          /\ oracle_log[j].ply < 40
          /\ oracle_log[j].ply \in BkPlayerPlies(40)
          /\ j > 1 => oracle_log[j - 1].ply < oracle_log[j].ply
    /\ BkQueried = BkPlayerPlies(bk_ply)
                     \cup (IF bk_pc = "await_explorer" \/ bk_result # None
                           THEN {bk_ply} ELSE {})
    /\ bk_result # None =>
          LET d == bk_result[1]
              t == bk_book_data[1]
          IN  /\ bk_pc = "returned"
              /\ bk_ply \in BkPlayerPlies(40)
              /\ BkMissing(t, bk_line[bk_ply + 1])
              /\ d.move_number = (bk_ply \div 2) + 1
              /\ d.player_played_uci = bk_line[bk_ply + 1]
              /\ Len(d.book_moves) = Min(5, Len(t))
              /\ \A j \in 1..Len(d.book_moves) : d.book_moves[j].uci = t[j].uci
    /\ (bk_pc = "returned" /\ bk_result = None /\ bk_game # None) =>
          bk_ply = Min(40, Len(bk_line))

C25_Step ==
    /\ (bk_pc = "await_explorer" /\ bk_failures' = bk_failures) =>
          IF BkMissing(bk_book_data'[1], bk_line[bk_ply + 1])
          THEN bk_result' # None /\ bk_pc' = "returned" /\ bk_ply' = bk_ply
          ELSE bk_result' = None /\ bk_pc' = "scan" /\ bk_ply' = bk_ply + 1
    /\ oracle_log' # oracle_log =>
          /\ bk_result = None
          /\ bk_pc = "scan"
          /\ bk_ply \in BkPlayerPlies(40)
    /\ bk_result # None => UNCHANGED <<bk_result, oracle_log, bk_ply>>

\* C25: find_book_deviation scans plies in order and returns a BookDeviation
\* for the first ply < 40 that is a move of the subject player, has a
\* non-empty book table and whose played move is not among the book moves,
\* with move_number = ply // 2 + 1 and at most 5 book alternatives; once it
\* is found no further explorer query is issued.  Queries are issued only for
\* the subject player's plies below 40 (at most 20 per game), in order and
\* without skipping one, and None is returned when no such ply exists.
C25_FirstDeviation == [](C25_State) /\ [][C25_Step]_vars

\* a deviation at the player's second move, after a first answer that held
\* the played move, with six book moves on offer and five reported
C25_Witness ==
    /\ bk_result # None
    /\ bk_result[1].move_number = 2
    /\ Len(oracle_log) = 2
    /\ Len(bk_book_data[1]) = 6
    /\ Len(bk_result[1].book_moves) = 5

\* a game longer than 40 plies scanned to the limit without a deviation
C25_WitnessLimit ==
    /\ bk_pc = "returned"
    /\ bk_result = None
    /\ bk_game # None
    /\ Len(bk_line) > 40
    /\ bk_ply = 40
    /\ Len(oracle_log) = 20

C26_Step ==
    bk_failures' # bk_failures =>
        /\ bk_pc = "await_explorer"
        /\ bk_book_data' = Some(<<>>)
        /\ bk_result' = None
        /\ bk_pc' = "scan"
        /\ bk_ply' = bk_ply + 1
        /\ bk_board' = Append(bk_board, bk_line[bk_ply + 1])

\* C26: a failed explorer query at any position is treated as an empty book
\* table for that position: it never raises out of the scan, never produces
\* a deviation at that ply, and the scan continues with the following plies,
\* so a later deviation is still found.
C26_FailedQueryIsEmptyTable ==
    /\ [](bk_pc \in {"idle", "start", "scan", "await_explorer", "returned"})
    /\ [][C26_Step]_vars

\* the first query failed and the second one found a deviation
C26_Witness ==
    /\ bk_failures = 1
    /\ Len(oracle_log) = 2
    /\ bk_result # None
    /\ bk_result[1].move_number = 2

----------------------------------------------------------------------------
(* api/player.py sync_games over GameSyncService.fetch_and_parse_all_games
   and PgnParser.parse; the session is committed or rolled back by
   dependencies.get_db when the request ends.  The games table has a unique
   chess_com_game_url column (models/db.py). *)

MaxBatch == 3

MaxRuns == 2

\* the player whose games are synchronised; another player's id is 2
SY_PLAYER == 1

GameUrls == {"game/1", "game/2"}

\* PGN texts: two games, a text without any game, and a game whose WhiteElo
\* header is not a number
PgnTexts == {"1. e4 e5", "1. d4", " ", "[WhiteElo \"?\"] 1. e4"}

ChessComGame(url, pgn) == [url |-> url, pgn |-> pgn]

RawBatches(longest) ==
    UNION { [1..n -> { ChessComGame(u, t) : u \in GameUrls, t \in PgnTexts }]
            : n \in 0..longest }

\* pgn_parser.py lines 61-63: chess.pgn.read_game finds no game
ReadGameNone(pgn_text) == pgn_text = " "

\* pgn_parser.py lines 95-96: int() of a rating header that is not a number
ParseRaises(pgn_text) == pgn_text = "[WhiteElo \"?\"] 1. e4"

\* pgn_parser.py lines 91-109, for a text that holds a game
ParsedGame(pgn_text) ==
    [total_moves |-> CASE pgn_text = "1. e4 e5" -> 2 [] OTHER -> 1,
     first_san |-> CASE pgn_text = "1. d4" -> "d4" [] OTHER -> "e4"]

\* game_sync_service.py lines 108-117, no parse raising
RECURSIVE ParseAll(_)
ParseAll(raw_games) ==
    IF raw_games = <<>> THEN <<>>
    ELSE IF ReadGameNone(Head(raw_games).pgn) THEN ParseAll(Tail(raw_games))
    ELSE <<<<Head(raw_games), ParsedGame(Head(raw_games).pgn)>>>>
           \o ParseAll(Tail(raw_games))

\* models/db.py Game, the columns sync_games fills from the pair
Game(raw_game, parsed_game) ==
    [player_id |-> SY_PLAYER,
     chess_com_game_url |-> raw_game.url,
     pgn |-> raw_game.pgn,
     total_moves |-> parsed_game.total_moves]

\* player.py lines 96-99
ExistingUrls(player_id) ==
    { sy_db[j].chess_com_game_url :
        j \in { k \in 1..Len(sy_db) : sy_db[k].player_id = player_id } }

\* player.py lines 101-125: the Game objects the loop adds
RECURSIVE AddNewGames(_, _)
AddNewGames(games, existing_urls) ==
    IF games = <<>> THEN <<>>
    ELSE IF Head(games)[1].url \in existing_urls
         THEN AddNewGames(Tail(games), existing_urls)
         ELSE <<Game(Head(games)[1], Head(games)[2])>>
                \o AddNewGames(Tail(games), existing_urls)

\* the unique constraint on chess_com_game_url over the table and the rows
\* about to be inserted
UniqueUrls(rows) ==
    \A j, k \in 1..Len(rows) :
        rows[j].chess_com_game_url = rows[k].chess_com_game_url => j = k

InitSync ==
    /\ sy_pc = "idle"
    /\ sy_db \in { <<>>,
                   <<[player_id |-> 2, chess_com_game_url |-> "game/1",
                      pgn |-> "1. e4 e5", total_moves |-> 2]>> }
    /\ sy_raw = None
    /\ sy_games = None
    /\ sy_session = <<>>
    /\ sy_runs = 0
    /\ PipelineIdle
    /\ OracleIdle
    /\ BookIdle
    /\ WeaknessIdle
    /\ FnIdle

rest_s == <<pvars, ovars, bvars, wvars, fvars>>

\* player.py lines 83-93: a request starts and awaits the fetch
SyncRequest ==
    /\ sy_pc \in {"idle", "complete", "failed"}
    /\ sy_runs < MaxRuns
    /\ sy_pc' = "await_fetch"
    /\ sy_raw' = None
    /\ sy_games' = None
    /\ sy_session' = <<>>
    /\ UNCHANGED <<sy_db, sy_runs, rest_s>>

\* game_sync_service.py lines 105-117: the batch arrives and is parsed
SyncFetchParsed ==
    /\ sy_pc = "await_fetch"
    /\ \E raw_games \in RawBatches(MaxBatch) :
          /\ \A j \in 1..Len(raw_games) : ~ParseRaises(raw_games[j].pgn)
          /\ sy_raw' = Some(raw_games)
          /\ sy_games' = Some(ParseAll(raw_games))
    /\ sy_pc' = "await_existing"
    /\ UNCHANGED <<sy_db, sy_session, sy_runs, rest_s>>

\* game_sync_service.py line 110 with pgn_parser.py lines 95-96: parse raises
\* ValueError, which leaves fetch_and_parse_all_games and the request;
\* get_db rolls back
SyncParseRaises ==
    /\ sy_pc = "await_fetch"
    /\ \E raw_games \in RawBatches(MaxBatch) :
          /\ \E j \in 1..Len(raw_games) : ParseRaises(raw_games[j].pgn)
          /\ sy_raw' = Some(raw_games)
    /\ sy_games' = None
    /\ sy_pc' = "failed"
    /\ sy_runs' = sy_runs + 1
    /\ UNCHANGED <<sy_db, sy_session, rest_s>>

\* player.py lines 95-134: the stored URLs arrive and the loop adds the games
SyncAddGames ==
    /\ sy_pc = "await_existing"
    /\ sy_session' = AddNewGames(sy_games[1], ExistingUrls(SY_PLAYER))
    /\ sy_pc' = "await_commit"
    /\ UNCHANGED <<sy_db, sy_raw, sy_games, sy_runs, rest_s>>

\* dependencies.py line 14: the commit inserts the added rows
SyncCommit ==
    /\ sy_pc = "await_commit"
    /\ UniqueUrls(sy_db \o sy_session)
    /\ sy_db' = sy_db \o sy_session
    /\ sy_session' = <<>>
    /\ sy_pc' = "complete"
    /\ sy_runs' = sy_runs + 1
    /\ UNCHANGED <<sy_raw, sy_games, rest_s>>

\* dependencies.py lines 15-17: the insert violates the unique constraint,
\* the session is rolled back and the error is raised
SyncCommitFails ==
    /\ sy_pc = "await_commit"
    /\ ~UniqueUrls(sy_db \o sy_session)
    /\ sy_session' = <<>>
    /\ sy_pc' = "failed"
    /\ sy_runs' = sy_runs + 1
    /\ UNCHANGED <<sy_db, sy_raw, sy_games, rest_s>>

NextSync ==
    \/ SyncRequest
    \/ SyncFetchParsed
    \/ SyncParseRaises
    \/ SyncAddGames
    \/ SyncCommit
    \/ SyncCommitFails

SpecSync == InitSync /\ [][NextSync]_vars

\* the positions of the fetched batch whose PGN text holds a well-formed game
SyParsable ==
    { j \in 1..Len(sy_raw[1]) : sy_raw[1][j].pgn \in {"1. e4 e5", "1. d4"} }

\* the k-th of them
SyNth(k) ==
    CHOOSE j \in SyParsable : Cardinality({ q \in SyParsable : q <= j }) = k

\* C27: a parse failure of one game record never aborts the batch: for any
\* sequence of raw games containing any number of unparsable records,
\* fetch_and_parse_all_games returns exactly the parsable games, in their
\* original order, each paired with its own raw game.
C27_ParseFailureSkipsOneGame ==
    sy_raw # None =>
        /\ sy_games # None
        /\ Len(sy_games[1]) = Cardinality(SyParsable)
        /\ \A k \in 1..Len(sy_games[1]) :
              /\ sy_games[1][k][1] = sy_raw[1][SyNth(k)]
              /\ sy_games[1][k][2].total_moves
                   = (IF sy_raw[1][SyNth(k)].pgn = "1. e4 e5" THEN 2 ELSE 1)

\* the same statement for batches in which no parse raises
C27_HoldsWithoutRaise ==
    (sy_raw # None /\ sy_games # None) =>
        /\ Len(sy_games[1]) = Cardinality(SyParsable)
        /\ \A k \in 1..Len(sy_games[1]) : sy_games[1][k][1] = sy_raw[1][SyNth(k)]

\* the rows of the subject player in a list of Game rows
SyMine(rows) == { j \in 1..Len(rows) : rows[j].player_id = SY_PLAYER }

\* C28: after any sequence of sync_games runs for a player (a fetched batch
\* may list the same game URL more than once, a run may be repeated with the
\* same fetched games) the player's stored games contain no two records with
\* the same chess_com_game_url: a game is added only if its URL is neither
\* already stored for the player nor already added earlier in the same run.
C28_NoDuplicateUrlAdded ==
    /\ \A j, k \in SyMine(sy_db) :
          sy_db[j].chess_com_game_url = sy_db[k].chess_com_game_url => j = k
    /\ \A j \in 1..Len(sy_session) :
          /\ sy_session[j].chess_com_game_url \notin ExistingUrls(SY_PLAYER)
          /\ \A k \in 1..(j - 1) :
                sy_session[k].chess_com_game_url # sy_session[j].chess_com_game_url

\* the committed table alone: no URL is stored twice
C28_StoredUrlsUnique ==
    \A j, k \in 1..Len(sy_db) :
        sy_db[j].chess_com_game_url = sy_db[k].chess_com_game_url => j = k

\* C29: after analyze_repertoire over any list of games every opening group
\* satisfies wins + draws + losses = games_played >= 1 (each game is counted
\* in exactly one of the three by its player_result: win, loss, anything
\* else is a draw), the games_played of all groups sum to the number of
\* input games, and repertoire_breadth equals the number of groups.
C29_GroupCountsAddUp ==
    fn_out # None =>
        LET r == fn_out[1]
            groups == 1..Len(r.openings)
        IN  /\ \A j \in groups :
                  LET o == r.openings[j]
                  IN  /\ o.wins + o.draws + o.losses = o.games_played
                      /\ o.games_played >= 1
                      /\ o.games_played = RepPlayed(o.name)
                      /\ o.wins = RepWon(o.name)
                      /\ o.losses = Cardinality({ k \in RepOf(o.name) :
                                                    RepIn[k].player_result = "loss" })
                      /\ o.draws = Cardinality({ k \in RepOf(o.name) :
                                                   RepIn[k].player_result \notin {"win", "loss"} })
            /\ \A j, k \in groups : r.openings[j].name = r.openings[k].name => j = k
            /\ Sum([j \in groups |-> r.openings[j].games_played]) = Len(RepIn)
            /\ r.repertoire_breadth = Len(r.openings)
            /\ r.repertoire_breadth = Cardinality(RepNames)

\* three groups, one of them with a won game and a game whose result label
\* is neither win, loss nor draw
C29_Witness ==
    /\ fn_out # None
    /\ fn_out[1].repertoire_breadth = 3
    /\ \E j \in 1..3 :
          /\ fn_out[1].openings[j].name = "Unknown"
          /\ fn_out[1].openings[j].wins = 1
          /\ fn_out[1].openings[j].draws = 1
    /\ \E k \in 1..Len(RepIn) : RepIn[k].player_result = "aborted"

----------------------------------------------------------------------------
(* SpecPlaystyleAny: classify applied to mappings whose values may lie
   outside [0,1] *)

\* each of the drawn features is absent or takes one of the samples; the
\* other features are all at 1/4
AnyFeatureMaps(samples) ==
    { [f \in { g \in DriverFeatures : d[g] # None } \cup OtherFeatures |->
          IF f \in DriverFeatures THEN d[f][1] ELSE Frac(1, 4)] :
        d \in [DriverFeatures -> {None} \cup { Some(v) : v \in samples }] }

InitPlaystyleAny ==
    /\ fn_in \in { Some([fn |-> "playstyle", normalized_features |-> nf]) :
                     nf \in AnyFeatureMaps({ Frac(-10, 1), Frac(0, 1), Frac(1, 1),
                                             Frac(10, 1) }) }
    /\ fn_out = None
    /\ PipelineIdle
    /\ OracleIdle
    /\ BookIdle
    /\ WeaknessIdle
    /\ SyncIdle

SpecPlaystyleAny == InitPlaystyleAny /\ [][NextPlaystyle]_vars

\* every value of the drawn mapping lies in [0,1]
AllInUnit ==
    \A f \in DOMAIN fn_in[1].normalized_features :
        InUnit(fn_in[1].normalized_features[f])

\* every archetype is given 100/6
EqualSplit ==
    \A j \in 1..6 : FracEq(fn_out[1].archetype_scores[j][2], Frac(100, 6))

\* every (feature, weight) pair of the table
AllWeights ==
    ARCHETYPES[1].weights \o ARCHETYPES[2].weights \o ARCHETYPES[3].weights
      \o ARCHETYPES[4].weights \o ARCHETYPES[5].weights \o ARCHETYPES[6].weights

\* the total is linear in each feature value v: a weight w >= 0 adds w*v, a
\* weight w < 0 adds |w| - |w|*v.  Its least value over [0,1] values, in
\* hundredths: the sum of the |w| of the negative weights plus every
\* negative net coefficient.
MinUnitTotal ==
    LET ws == AllWeights
        coef(f) == Sum([l \in 1..Len(ws) |-> IF ws[l][1] = f THEN ws[l][2] ELSE 0])
        first(l) == \A q \in 1..(l - 1) : ws[q][1] # ws[l][1]
    IN  Sum([l \in 1..Len(ws) |-> IF ws[l][2] < 0 THEN -ws[l][2] ELSE 0])
          + Sum([l \in 1..Len(ws) |->
                   IF first(l) THEN Min(0, coef(ws[l][1])) ELSE 0])

\* C30: for every mapping whose values all lie in [0,1] (missing features
\* 0.5) the total of the six archetype scores is strictly positive, so the
\* equal split (100/6 each) is never taken for normalized input; it is taken
\* only when values outside [0,1] make the total <= 0, and then it is taken
\* even if the individual scores are not all exactly 0.
C30_EqualSplitOnlyOutsideUnit ==
    fn_out # None =>
        LET total == ExpectedTotal
        IN  /\ MinUnitTotal > 0
            /\ AllInUnit => (total.num > 0 /\ ~EqualSplit)
            /\ AllInUnit => FracLe(Frac(MinUnitTotal, 100), total)
            /\ total.num <= 0 => (EqualSplit /\ ~AllInUnit)
            /\ total.num > 0 =>
                  \A j \in 1..6 :
                      FracEq(FracMul(fn_out[1].archetype_scores[j][2], total),
                             FracMul(Frac(100, 1), ExpectedScore(j)))

\* a negative total with archetype scores that are not 0: equal split
C30_Witness ==
    /\ fn_out # None
    /\ ExpectedTotal.num < 0
    /\ \A j \in 1..6 : ExpectedScore(j).num # 0
    /\ EqualSplit

\* a mapping with values in [0,1] only, the smallest total they allow
C30_WitnessInUnit ==
    /\ fn_out # None
    /\ AllInUnit
    /\ DOMAIN fn_in[1].normalized_features = DriverFeatures \cup OtherFeatures
    /\ ~EqualSplit

====
